---- MODULE Spec2Model ----
(***************************************************************************)
(* Time-window transmission scheduler of the mesh radio interface.         *)
(*                                                                         *)
(* The repository holds three definitions of RadioInterface::send and      *)
(* RadioInterface::processQueuedPackets:                                   *)
(*   "fifo"   src/src/mesh/RadioInterface.cpp      (meshtastic::PacketQueue)*)
(*   "prio"   src/src/mesh/RadioInterfaceQueue.cpp (PriorityPacketQueue)   *)
(*   "inline" src/src/mesh/RadioInterfaceTime.cpp  (std::vector member)    *)
(* The variable impl says which of them is linked into the image; it is    *)
(* chosen once, in Init.                                                   *)
(***************************************************************************)
EXTENDS Integers, Sequences, FiniteSets, TLC

(***************************************************************************)
(* Bounds of the model.                                                    *)
(***************************************************************************)
\* packets the mesh layer allocates and hands to send()
NPackets == 2
\* the clock runs from boot (0 ms) to MaxTicks ticks, in steps of half an hour
MaxTicks == 2
\* capacity the queue object is built with (the default argument 32 of the
\* PacketQueue / PriorityPacketQueue constructors, scaled to the model)
QueueCapacity == 2
\* largest value the 'window queue SIZE' setting takes in the model
MaxCfgQueue == QueueCapacity + 1
\* enqueues counted by stats.totalQueued before the model stops draining
MaxTotalQueued == NPackets + 1
\* reports each counter of the plug-in's statistics takes before the model stops
MaxRecorded == 2

(***************************************************************************)
(* Program constants.                                                      *)
(***************************************************************************)
\* PacketQueue(size_t maxSize = 32, uint32_t expirySeconds = 3600)
DefaultExpirySeconds == 3600
\* RadioInterfaceQueue.cpp: const uint32_t maxProcessTime = 100
maxProcessTime == 100
\* Used by RadioInterfaceQueue.cpp, defined outside src/ (spec: min_drain_interval,
\* max_packets_per_cycle)
MIN_QUEUE_PROCESS_INTERVAL == 1000
MAX_PACKETS_PER_CYCLE == 2

TickMs == 1800 * 1000

\* millis(), the ages and the counters are uint32_t in the code.  The clock of the
\* model ends at MaxTicks ticks and every counter below MaxTotalQueued + NPackets,
\* so no value comes near 2^32 and none wraps.

Impls == {"fifo", "prio", "inline"}

\* meshtastic_TimeWindowMode; 3 stands for any value outside the enum
DROP_PACKETS == 0
QUEUE_PACKETS == 1
RECEIVE_ONLY == 2
InvalidMode == 3
ValidModes == {DROP_PACKETS, QUEUE_PACKETS, RECEIVE_ONLY}
Modes == ValidModes \cup {InvalidMode}

PacketIds == 1..NPackets
NoPacket == 0

(***************************************************************************)
(* Packets: the attributes the scheduler reads.                            *)
(***************************************************************************)
PlainKinds ==
  { [payloadlen |-> 1, want_ack |-> FALSE, priority |-> "DEFAULT",  decoded |-> TRUE, portnum |-> "TEXT"],
    [payloadlen |-> 0, want_ack |-> FALSE, priority |-> "DEFAULT",  decoded |-> TRUE, portnum |-> "TEXT"] }

UrgentKinds ==
  { [payloadlen |-> 1, want_ack |-> TRUE,  priority |-> "RELIABLE", decoded |-> TRUE, portnum |-> "EMERGENCY"] }

NoKind == [payloadlen |-> 0, want_ack |-> FALSE, priority |-> "DEFAULT", decoded |-> FALSE, portnum |-> "TEXT"]

\* calculatePriority whose ACK case adds as much as the RELIABLE case
calculatePriorityAckAsReliable(a) ==
  1 + (IF a.want_ack THEN 2 ELSE 0)
    + (IF a.priority = "RELIABLE" \/ a.priority = "ACK" THEN 3 ELSE 0)
    + (IF a.decoded /\ a.portnum = "POSITION" THEN 1 ELSE 0)
    + (IF a.decoded /\ a.portnum = "EMERGENCY" THEN 4 ELSE 0)

\* PriorityPacketQueue::QueuedPacket::calculatePriority
calculatePriority(a) ==
  1 + (IF a.want_ack THEN 2 ELSE 0)
    + (IF a.priority = "RELIABLE" THEN 3 ELSE IF a.priority = "ACK" THEN 2 ELSE 0)
    + (IF a.decoded /\ a.portnum = "POSITION" THEN 1 ELSE 0)
    + (IF a.decoded /\ a.portnum = "EMERGENCY" THEN 4 ELSE 0)

(***************************************************************************)
(* The window clock.                                                       *)
(***************************************************************************)
MinuteOfDay(h, m) == h * 60 + m

\* isTimeInWindow with the end minute counted as inside a same-day window
isTimeInWindowEndInclusive(cfg, hour, minute) ==
  LET current == hour * 60 + minute
      start   == cfg.window_start_hour * 60 + cfg.window_start_minute
      end     == cfg.window_end_hour * 60 + cfg.window_end_minute
  IN  IF start <= end
        THEN (current >= start) /\ (current <= end)
        ELSE (current >= start) \/ (current < end)

\* TimeWindow.cpp: isTimeInWindow(cfg, hour, minute)
isTimeInWindow(cfg, hour, minute) ==
  LET current == hour * 60 + minute
      start   == cfg.window_start_hour * 60 + cfg.window_start_minute
      end     == cfg.window_end_hour * 60 + cfg.window_end_minute
  IN  IF start <= end
        THEN (current >= start) /\ (current < end)
        ELSE (current >= start) \/ (current < end)

\* TimeWindow.cpp: isTimeWindowActive(cfg), with millis() = ms
isTimeWindowActive(cfg, ms) ==
  IF ~cfg.time_window_enabled THEN TRUE
  ELSE LET currentSeconds == ms \div 1000
           currentHour    == (currentSeconds \div 3600) % 24
           currentMinute  == (currentSeconds \div 60) % 60
       IN  isTimeInWindow(cfg, currentHour, currentMinute)

\* isOperationAllowed with the two halves of a window across midnight joined by
\* 'and' instead of 'or'
isOperationAllowedWrapAnd(cfg, ms) ==
  IF ~cfg.has_lora \/ ~cfg.time_window_enabled THEN TRUE
  ELSE LET currentTime == ((ms \div 1000) % (24 * 3600)) \div 60
           startTime   == cfg.window_start_hour * 60 + cfg.window_start_minute
           endTime     == cfg.window_end_hour * 60 + cfg.window_end_minute
       IN  (currentTime >= startTime) /\ (currentTime < endTime)

\* isOperationAllowed without the test of time_window_enabled
isOperationAllowedUnguarded(cfg, ms) ==
  LET currentTime == ((ms \div 1000) % (24 * 3600)) \div 60
      startTime   == cfg.window_start_hour * 60 + cfg.window_start_minute
      endTime     == cfg.window_end_hour * 60 + cfg.window_end_minute
  IN  IF startTime <= endTime
        THEN (currentTime >= startTime) /\ (currentTime < endTime)
        ELSE (currentTime >= startTime) \/ (currentTime < endTime)

\* RadioInterfaceTime.cpp: RadioInterface::isOperationAllowed, with millis() = ms
isOperationAllowed(cfg, ms) ==
  IF ~cfg.has_lora \/ ~cfg.time_window_enabled THEN TRUE
  ELSE LET now           == ms \div 1000
           daySeconds    == now % (24 * 3600)
           currentHour   == daySeconds \div 3600
           currentMinute == (daySeconds % 3600) \div 60
           currentTime   == currentHour * 60 + currentMinute
           startTime     == cfg.window_start_hour * 60 + cfg.window_start_minute
           endTime       == cfg.window_end_hour * 60 + cfg.window_end_minute
       IN  IF startTime <= endTime
             THEN (currentTime >= startTime) /\ (currentTime < endTime)
             ELSE (currentTime >= startTime) \/ (currentTime < endTime)

(***************************************************************************)
(* State.                                                                  *)
(***************************************************************************)
VARIABLES
  impl,      \* which definition of send / processQueuedPackets is linked
  config,    \* config.has_lora and the time-window fields of config.lora
  millis,    \* millis(): milliseconds since boot
  packets,   \* the queue's container: entries in insertion order
  stats,     \* PacketQueue::stats / PriorityPacketQueue::stats
  metrics,   \* RadioInterfaceQueue.cpp: QueueMetrics metrics
  disabled,  \* RadioInterface::disabled
  halted,    \* the image no longer runs (unbounded recursion of "inline" send)
  pkt,       \* attributes of each allocated packet
  nextId,    \* the next packet the mesh layer allocates
  rel,       \* per packet: calls of packetPool.release on it (2 = two or more)
  tx,        \* per packet: successful hand-overs to sendTo (2 = two or more)
  plugin,    \* TimeWindowPlugin: its members, its statistics, the reply it sent last
  twin,      \* a PacketQueue and a PriorityPacketQueue object given the same calls
  last       \* the last operation and what it did

vars == <<impl, config, millis, packets, stats, metrics, disabled, halted,
          pkt, nextId, rel, tx, plugin, twin, last>>

Max(a, b) == IF a >= b THEN a ELSE b
Min(a, b) == IF a <= b THEN a ELSE b

\* tally that stops at "two or more"
Bump(n) == IF n >= 2 THEN 2 ELSE n + 1

ZeroStats == [totalQueued |-> 0, expiredPackets |-> 0, queueOverflows |-> 0,
              totalQueueTime |-> 0, maxQueueTime |-> 0]

ZeroMetrics == [lastProcessTime |-> 0, highPriorityCount |-> 0,
                normalPriorityCount |-> 0, dropCount |-> 0]

NoLast == [op |-> "init", p |-> NoPacket, ret |-> "none", gated |-> FALSE,
           attempted |-> {}, drained |-> FALSE, processed |-> 0, failed |-> <<>>,
           order |-> <<>>, arg |-> <<>>]

(***************************************************************************)
(* A handler runs on a record m of the state it may change, and returns    *)
(* the record as it leaves it.  m.ret is the handler's return value,       *)
(* m.ok the result of the last enqueue, m.cur the entry last dequeued,     *)
(* m.gated whether send() took its outside-the-window branch,              *)
(* m.attempted the packets handed to sendTo, m.drained whether             *)
(* processQueuedPackets passed its guard, m.processed packetsProcessed,     *)
(* m.failed the packets whose sendPacket in the drain loop returned an     *)
(* error, m.order the packets handed to sendTo in the order of the calls.  *)
(***************************************************************************)
Machine ==
  [packets |-> packets, stats |-> stats, metrics |-> metrics, rel |-> rel, tx |-> tx,
   halted |-> halted, ret |-> "none", ok |-> TRUE, gated |-> FALSE,
   cur |-> [packet |-> NoPacket, enqueue_time |-> 0, priority |-> 0],
   attempted |-> {}, drained |-> FALSE, processed |-> 0, failed |-> <<>>,
   order |-> <<>>]

\* packetPool.release(p)
Release(m, p) == [m EXCEPT !.rel[p] = Bump(@)]

\* PacketQueue.h: maxQueueSize of the default-constructed queue object
maxQueueSize == QueueCapacity

\* PacketQueue.h: packetExpirySeconds of the default-constructed queue object
packetExpirySeconds == DefaultExpirySeconds

(***************************************************************************)
(* meshtastic::PacketQueue and meshtastic::PriorityPacketQueue.            *)
(***************************************************************************)
\* enqueue that accepts one entry more than maxQueueSize
QEnqueueOneMore(m, p, now, prio) ==
  IF Len(m.packets) > maxQueueSize
    THEN [m EXCEPT !.stats.queueOverflows = (@ + 1), !.ok = FALSE]
    ELSE [m EXCEPT !.packets = Append(@, [packet |-> p, enqueue_time |-> now,
                                          priority |-> prio]),
                   !.stats.totalQueued = (@ + 1),
                   !.ok = TRUE]

\* enqueue that counts a rejected packet in totalQueued too
QEnqueueCountsRejected(m, p, now, prio) ==
  IF Len(m.packets) >= maxQueueSize
    THEN [m EXCEPT !.stats.queueOverflows = (@ + 1),
                   !.stats.totalQueued = (@ + 1), !.ok = FALSE]
    ELSE [m EXCEPT !.packets = Append(@, [packet |-> p, enqueue_time |-> now,
                                          priority |-> prio]),
                   !.stats.totalQueued = (@ + 1),
                   !.ok = TRUE]

\* enqueue(packet), of both classes; prio is the entry's priority (0 in PacketQueue)
QEnqueue(m, p, now, prio) ==
  IF Len(m.packets) >= maxQueueSize
    THEN [m EXCEPT !.stats.queueOverflows = (@ + 1), !.ok = FALSE]
    ELSE [m EXCEPT !.packets = Append(@, [packet |-> p, enqueue_time |-> now,
                                          priority |-> prio]),
                   !.stats.totalQueued = (@ + 1),
                   !.ok = TRUE]

\* the statistics part of dequeue(), of both classes
DequeueStats(st, e, now) ==
  LET queueTime == (now - e.enqueue_time) \div 1000
  IN  [st EXCEPT !.totalQueueTime = (@ + queueTime),
                 !.maxQueueTime = Max(@, queueTime)]

\* PacketQueue::dequeue on a non-empty queue
FifoDequeue(m, now) ==
  LET front == Head(m.packets)
  IN  [m EXCEPT !.packets = Tail(@),
                !.stats = DequeueStats(@, front, now),
                !.cur = front]

RemoveAt(q, i) == SubSeq(q, 1, i - 1) \o SubSeq(q, i + 1, Len(q))

\* top() of a queue kept in arrival order: the oldest entry
TopIndexOldest(q, rank) == 1

\* std::priority_queue::top: an entry of maximal priority; which one of several
\* equal entries is on top is left to the heap, here to the ranking rank
TopIndex(q, rank) ==
  CHOOSE i \in 1..Len(q) :
    \A j \in 1..Len(q) :
      \/ q[j].priority < q[i].priority
      \/ /\ q[j].priority = q[i].priority
         /\ \/ rank[q[j].packet] > rank[q[i].packet]
            \/ (rank[q[j].packet] = rank[q[i].packet] /\ j >= i)

\* dequeue that returns the top entry and leaves it in the container
PrioDequeueKeepsTop(m, now, rank) ==
  LET i   == TopIndex(m.packets, rank)
      top == m.packets[i]
  IN  [m EXCEPT !.stats = DequeueStats(@, top, now),
                !.cur = top]

\* PriorityPacketQueue::dequeue on a non-empty queue
PrioDequeue(m, now, rank) ==
  LET i   == TopIndex(m.packets, rank)
      top == m.packets[i]
  IN  [m EXCEPT !.packets = RemoveAt(@, i),
                !.stats = DequeueStats(@, top, now),
                !.cur = top]

\* the test of cleanExpired / cleanExpiredPackets on one entry
IsExpired(e, now, expirySecs) ==
  (now - e.enqueue_time) >= (expirySecs * 1000)

RECURSIVE ReleaseAll(_, _)
\* packetPool.release on the packet of every entry of q
ReleaseAll(m, q) ==
  IF q = <<>> THEN m ELSE ReleaseAll(Release(m, Head(q).packet), Tail(q))

\* cleanExpired that counts the call itself as one expired packet
QCleanExpiredCountsCall(m, now) ==
  LET gone == SelectSeq(m.packets, LAMBDA e : IsExpired(e, now, packetExpirySeconds))
      kept == SelectSeq(m.packets, LAMBDA e : ~IsExpired(e, now, packetExpirySeconds))
  IN  [ReleaseAll(m, gone) EXCEPT
         !.packets = kept,
         !.stats.expiredPackets = (@ + Len(gone) + 1)]

\* PacketQueue::cleanExpired and PriorityPacketQueue::cleanExpired
QCleanExpired(m, now) ==
  LET gone == SelectSeq(m.packets, LAMBDA e : IsExpired(e, now, packetExpirySeconds))
      kept == SelectSeq(m.packets, LAMBDA e : ~IsExpired(e, now, packetExpirySeconds))
  IN  [ReleaseAll(m, gone) EXCEPT
         !.packets = kept,
         !.stats.expiredPackets = (@ + Len(gone))]

\* clear() that also zeroes the statistics
QClearResetsStats(m) ==
  [ReleaseAll(m, m.packets) EXCEPT
     !.packets = <<>>,
     !.stats = [totalQueued |-> 0, expiredPackets |-> 0, queueOverflows |-> 0,
                totalQueueTime |-> 0, maxQueueTime |-> 0]]

\* PacketQueue::clear and PriorityPacketQueue::clear
QClear(m) == [ReleaseAll(m, m.packets) EXCEPT !.packets = <<>>]

\* PacketQueue::getAvgQueueTime and PriorityPacketQueue::getAvgQueueTime
getAvgQueueTime(st) ==
  IF st.totalQueued # 0 THEN st.totalQueueTime \div st.totalQueued ELSE 0

(***************************************************************************)
(* What a handler reads besides m: env.cfg the configuration, env.now      *)
(* millis(), env.disabled, env.pkt the packets' attributes, and the        *)
(* inputs of the call:                                                     *)
(*   env.failAt   the sendPacket call of the drain loop (1, 2, ...) whose  *)
(*                sendTo fails; 0 when none does                           *)
(*   env.outcome  what the radio does with the packet send() was given:    *)
(*                "OK", "ZERO" (beginSending returns 0), "FAIL" (sendTo    *)
(*                returns an error)                                        *)
(*   env.staleZero  whether payloadlen of a packet already released reads  *)
(*                as zero (the read is undefined)                          *)
(*   env.rank     the heap's order among entries of equal priority         *)
(*   env.iterMs   milliseconds one iteration of the drain loop takes       *)
(*   env.plugin   the object behind the global timeWindowPlugin            *)
(***************************************************************************)
RadioOutcomes == {"OK", "ZERO", "FAIL"}

PayloadIsZero(m, p, env) ==
  IF m.rel[p] > 0 THEN env.staleZero ELSE env.pkt[p].payloadlen = 0

\* RadioInterface.cpp: RadioInterface::sendPacket; r is the radio's outcome
sendPacket(m, p, r, env) ==
  IF env.disabled
    THEN [Release(m, p) EXCEPT !.ret = "ERRNO_NO_RADIO"]
  ELSE IF PayloadIsZero(m, p, env)
    THEN [Release(m, p) EXCEPT !.ret = "ERRNO_INVALID_LENGTH"]
  ELSE IF r = "ZERO"
    THEN [m EXCEPT !.ret = "ERRNO_INVALID_LENGTH"]
  ELSE IF r = "FAIL"
    THEN [m EXCEPT !.ret = "ERRNO_UNKNOWN", !.attempted = @ \cup {p},
                   !.order = Append(@, p)]
  ELSE [m EXCEPT !.ret = "ERRNO_OK", !.tx[p] = Bump(@), !.attempted = @ \cup {p},
                 !.order = Append(@, p)]

LoopOutcome(i, env) == IF env.failAt = i THEN "FAIL" ELSE "OK"

\* a window test that lets an armed override of the plug-in decide
OutsideWindowUnlessForced(env) ==
  /\ env.cfg.has_lora
  /\ env.cfg.time_window_enabled
  /\ IF env.plugin.temporaryOverride THEN ~env.plugin.overrideActive
                                     ELSE ~isOperationAllowed(env.cfg, env.now)

\* the window test that opens send(): the time window is enabled and closed
OutsideWindow(env) ==
  env.cfg.has_lora /\ env.cfg.time_window_enabled /\ ~isOperationAllowed(env.cfg, env.now)

(***************************************************************************)
(* "fifo": src/src/mesh/RadioInterface.cpp                                 *)
(***************************************************************************)
\* a failed sendPacket answered by dropping the packet instead of requeueing it
FifoRequeueDrops(m, p, env) == Release(m, p)

\* a requeue that puts the failed packet back at the front of the queue
FifoRequeueAtFront(m, p, env) ==
  IF Len(m.packets) >= maxQueueSize
    THEN Release([m EXCEPT !.stats.queueOverflows = (@ + 1), !.ok = FALSE], p)
    ELSE [m EXCEPT !.packets = <<[packet |-> p, enqueue_time |-> env.now,
                                  priority |-> 0]>> \o @,
                   !.stats.totalQueued = (@ + 1),
                   !.ok = TRUE]

\* a requeue that tests the queue's size as it was before the dequeue
FifoRequeueOldSize(m, p, env) ==
  IF Len(m.packets) + 1 >= maxQueueSize
    THEN Release([m EXCEPT !.stats.queueOverflows = (@ + 1), !.ok = FALSE], p)
    ELSE QEnqueue(m, p, env.now, 0)

\* the requeue after a failed sendPacket, RadioInterface.cpp:61-67
FifoRequeue(m, p, env) ==
  LET e == QEnqueue(m, p, env.now, 0)
  IN  IF ~e.ok THEN Release(e, p) ELSE e

RECURSIVE FifoLoop(_, _, _)
\* the while loop of processQueuedPackets, RadioInterface.cpp:57-70
FifoLoop(m, i, env) ==
  IF m.packets = <<>> THEN m
  ELSE LET d == FifoDequeue(m, env.now)
           s == sendPacket(d, d.cur.packet, LoopOutcome(i, env), env)
       IN  IF s.ret # "ERRNO_OK"
             THEN FifoRequeue([s EXCEPT !.failed = Append(@, d.cur.packet)],
                              d.cur.packet, env)
             ELSE FifoLoop([s EXCEPT !.processed = @ + 1], i + 1, env)

\* RadioInterface.cpp: RadioInterface::processQueuedPackets
FifoProcess(m, env) ==
  IF ~env.cfg.has_lora \/ ~env.cfg.time_window_enabled THEN m
  ELSE FifoLoop([QCleanExpired(m, env.now) EXCEPT !.drained = TRUE], 1, env)

\* FifoSend whose RECEIVE_ONLY case returns without releasing the packet
FifoSendReceiveOnlyKeeps(m, p, env) ==
  IF OutsideWindow(env) /\ env.cfg.window_mode = RECEIVE_ONLY
    THEN [m EXCEPT !.gated = TRUE, !.ret = "ERRNO_NO_RADIO"]
  ELSE IF OutsideWindow(env) /\ env.cfg.window_mode = DROP_PACKETS
    THEN [Release([m EXCEPT !.gated = TRUE], p) EXCEPT !.ret = "ERRNO_NO_RADIO"]
  ELSE [m EXCEPT !.gated = OutsideWindow(env), !.ret = "ERRNO_INVALID_CONFIG"]

\* FifoSend whose default case releases the packet before it returns
FifoSendDefaultReleases(m, p, env) ==
  IF OutsideWindow(env)
    THEN LET g == [m EXCEPT !.gated = TRUE]
         IN  CASE env.cfg.window_mode = DROP_PACKETS ->
                    [Release(g, p) EXCEPT !.ret = "ERRNO_NO_RADIO"]
               [] env.cfg.window_mode = QUEUE_PACKETS ->
                    LET e == QEnqueue(g, p, env.now, 0)
                    IN  IF ~e.ok THEN [Release(e, p) EXCEPT !.ret = "ERRNO_NO_RADIO"]
                                 ELSE [e EXCEPT !.ret = "ERRNO_OK"]
               [] env.cfg.window_mode = RECEIVE_ONLY ->
                    [Release(g, p) EXCEPT !.ret = "ERRNO_NO_RADIO"]
               [] OTHER ->
                    [Release(g, p) EXCEPT !.ret = "ERRNO_INVALID_CONFIG"]
    ELSE sendPacket(FifoProcess(m, env), p, env.outcome, env)

\* RadioInterface.cpp: RadioInterface::send
FifoSend(m, p, env) ==
  IF OutsideWindow(env)
    THEN LET g == [m EXCEPT !.gated = TRUE]
         IN  CASE env.cfg.window_mode = DROP_PACKETS ->
                    [Release(g, p) EXCEPT !.ret = "ERRNO_NO_RADIO"]
               [] env.cfg.window_mode = QUEUE_PACKETS ->
                    LET e == QEnqueue(g, p, env.now, 0)
                    IN  IF ~e.ok THEN [Release(e, p) EXCEPT !.ret = "ERRNO_NO_RADIO"]
                                 ELSE [e EXCEPT !.ret = "ERRNO_OK"]
               [] env.cfg.window_mode = RECEIVE_ONLY ->
                    [Release(g, p) EXCEPT !.ret = "ERRNO_NO_RADIO"]
               [] OTHER ->
                    [g EXCEPT !.ret = "ERRNO_INVALID_CONFIG"]
    ELSE sendPacket(FifoProcess(m, env), p, env.outcome, env)

(***************************************************************************)
(* "prio": src/src/mesh/RadioInterfaceQueue.cpp                            *)
(***************************************************************************)
\* priorityQueue.getLastPriority(): the priority of the entry last dequeued
getLastPriority(m) == m.cur.priority

\* a requeue that gives the failed packet the lowest score
PrioRequeueLowest(m, p, env) ==
  LET e == QEnqueue(m, p, env.now, 0)
  IN  IF ~e.ok THEN Release([e EXCEPT !.metrics.dropCount = (@ + 1)], p) ELSE e

\* the requeue after a failed sendPacket, RadioInterfaceQueue.cpp:99-107
PrioRequeue(m, p, env) ==
  LET e == QEnqueue(m, p, env.now, calculatePriority(env.pkt[p]))
  IN  IF ~e.ok THEN Release([e EXCEPT !.metrics.dropCount = (@ + 1)], p) ELSE e

RECURSIVE PrioLoop(_, _, _)
\* the while loop of processQueuedPackets, RadioInterfaceQueue.cpp:83-108
PrioLoop(m, i, env) ==
  IF ~(/\ m.packets # <<>>
       /\ (i - 1) * env.iterMs < maxProcessTime
       /\ m.processed < MAX_PACKETS_PER_CYCLE) THEN m
  ELSE LET d == PrioDequeue(m, env.now, env.rank)
           isHighPriority == getLastPriority(d) > 2
           s == sendPacket(d, d.cur.packet, LoopOutcome(i, env), env)
       IN  IF s.ret = "ERRNO_OK"
             THEN PrioLoop([s EXCEPT
                              !.metrics.highPriorityCount =
                                 IF isHighPriority THEN (@ + 1) ELSE @,
                              !.metrics.normalPriorityCount =
                                 IF isHighPriority THEN @ ELSE (@ + 1),
                              !.processed = @ + 1],
                           i + 1, env)
             ELSE PrioRequeue([s EXCEPT !.failed = Append(@, d.cur.packet)],
                              d.cur.packet, env)

\* RadioInterfaceQueue.cpp: RadioInterface::processQueuedPackets
PrioProcess(m, env) ==
  IF ~env.cfg.has_lora \/ ~env.cfg.time_window_enabled THEN m
  ELSE PrioLoop([QCleanExpired(m, env.now) EXCEPT !.drained = TRUE], 1, env)

\* PrioDrop that counts the drop and returns without releasing the packet
PrioDropKeeps(m, p) ==
  [m EXCEPT !.metrics.dropCount = (@ + 1), !.ret = "ERRNO_NO_RADIO"]

\* the drop of send() outside the window, RadioInterfaceQueue.cpp:30-34 and 47-51
PrioDrop(m, p) ==
  [Release([m EXCEPT !.metrics.dropCount = (@ + 1)], p) EXCEPT !.ret = "ERRNO_NO_RADIO"]

\* RadioInterfaceQueue.cpp: RadioInterface::send
PrioSend(m, p, env) ==
  IF OutsideWindow(env)
    THEN LET g == [m EXCEPT !.gated = TRUE]
         IN  CASE env.cfg.window_mode = DROP_PACKETS -> PrioDrop(g, p)
               [] env.cfg.window_mode = QUEUE_PACKETS ->
                    LET e == QEnqueue(g, p, env.now, calculatePriority(env.pkt[p]))
                    IN  IF ~e.ok THEN PrioDrop(e, p)
                                 ELSE [e EXCEPT !.ret = "ERRNO_OK"]
               [] env.cfg.window_mode = RECEIVE_ONLY -> PrioDrop(g, p)
               [] OTHER ->
                    [g EXCEPT !.ret = "ERRNO_INVALID_CONFIG"]
    ELSE LET due == (env.now - m.metrics.lastProcessTime) >= MIN_QUEUE_PROCESS_INTERVAL
             q   == IF due THEN [PrioProcess(m, env) EXCEPT !.metrics.lastProcessTime = env.now]
                           ELSE m
         IN  sendPacket(q, p, env.outcome, env)

(***************************************************************************)
(* "inline": src/src/mesh/RadioInterfaceTime.cpp                           *)
(***************************************************************************)
\* RadioInterfaceTime.cpp: RadioInterface::cleanExpiredPackets
InlineCleanExpired(m, env) ==
  IF ~env.cfg.has_lora \/ ~env.cfg.time_window_enabled THEN m
  ELSE LET exp  == env.cfg.window_packet_expire_secs
           gone == SelectSeq(m.packets, LAMBDA e : IsExpired(e, env.now, exp))
           kept == SelectSeq(m.packets, LAMBDA e : ~IsExpired(e, env.now, exp))
       IN  [ReleaseAll(m, gone) EXCEPT !.packets = kept]

\* RadioInterfaceTime.cpp: RadioInterface::processQueuedPackets.  The loop calls
\* RadioInterface::send on the front entry, which (the window being open) calls
\* processQueuedPackets again on the same front entry: the recursion has no end.
InlineProcess(m, env) ==
  IF ~env.cfg.has_lora \/ ~env.cfg.time_window_enabled
     \/ ~isOperationAllowed(env.cfg, env.now) THEN m
  ELSE LET c == [InlineCleanExpired(m, env) EXCEPT !.drained = TRUE]
       IN  IF c.packets = <<>> THEN c ELSE [c EXCEPT !.halted = TRUE]

\* RadioInterfaceTime.cpp: RadioInterface::send.  Outside the switch the function
\* ends in 'return RadioInterface::send(p)', a call of itself: the recursion has
\* no end, whatever the queue holds.
InlineSend(m, p, env) ==
  IF env.cfg.has_lora /\ env.cfg.time_window_enabled /\ ~isOperationAllowed(env.cfg, env.now)
    THEN LET g == [m EXCEPT !.gated = TRUE]
         IN  CASE env.cfg.window_mode = DROP_PACKETS ->
                    [Release(g, p) EXCEPT !.ret = "ERRNO_NO_RADIO"]
               [] env.cfg.window_mode = QUEUE_PACKETS ->
                    IF Len(g.packets) >= env.cfg.window_queue_size
                      THEN [Release(g, p) EXCEPT !.ret = "ERRNO_NO_RADIO"]
                      ELSE [g EXCEPT !.packets = Append(@, [packet |-> p,
                                                            enqueue_time |-> env.now,
                                                            priority |-> 0]),
                                     !.ret = "ERRNO_OK"]
               [] env.cfg.window_mode = RECEIVE_ONLY ->
                    [Release(g, p) EXCEPT !.ret = "ERRNO_NO_RADIO"]
               [] OTHER ->
                    [g EXCEPT !.ret = "ERRNO_INVALID_CONFIG"]
    ELSE LET q == IF env.cfg.has_lora /\ env.cfg.time_window_enabled
                    THEN InlineProcess(m, env) ELSE m
         IN  [q EXCEPT !.halted = TRUE]

(***************************************************************************)
(* The linked definitions.                                                 *)
(***************************************************************************)
\* RadioInterface::send of the linked translation unit
DoSend(m, p, env) ==
  CASE impl = "fifo" -> FifoSend(m, p, env)
    [] impl = "prio" -> PrioSend(m, p, env)
    [] OTHER         -> InlineSend(m, p, env)

\* RadioInterface::processQueuedPackets of the linked translation unit
DoProcess(m, env) ==
  CASE impl = "fifo" -> FifoProcess(m, env)
    [] impl = "prio" -> PrioProcess(m, env)
    [] OTHER         -> InlineProcess(m, env)

\* RadioInterface::clearPacketQueue (RadioInterface.cpp:95-97,
\* RadioInterfaceQueue.cpp:111-114); RadioInterfaceTime.cpp defines none
DoClear(m) ==
  CASE impl = "fifo" -> QClear(m)
    [] impl = "prio" -> [QClear(m) EXCEPT
                           !.metrics.highPriorityCount = 0,
                           !.metrics.normalPriorityCount = 0,
                           !.metrics.dropCount = 0]
    [] OTHER         -> m

(***************************************************************************)
(* TimeWindowPlugin: src/src/plugins/TimeWindowPlugin.h and .cpp.  A       *)
(* handler runs on the record pl of the plug-in's members; pl.stats is the *)
(* file's static statistics struct and pl.sent the payload of the last     *)
(* sendPayload call.                                                       *)
(***************************************************************************)
\* TimeWindowPlugin.cpp:10-18: static struct { ... } stats = {}
ZeroPluginStats ==
  [totalQueued |-> 0, totalDropped |-> 0, totalDelayed |-> 0, queueOverflows |-> 0,
   maxQueueTime |-> 0, sumQueueTime |-> 0, queuedPackets |-> 0]

\* no payload sent yet
NoMessage ==
  [type |-> "NONE", is_active |-> FALSE, queued_packets |-> 0, dropped_packets |-> 0,
   window_mode |-> 0, total_queued |-> 0, total_dropped |-> 0, total_delayed |-> 0,
   avg_queue_time |-> 0, max_queue_time |-> 0, queue_overflows |-> 0]

\* TimeWindowPlugin.h:52-58: the member initialisers
NewPlugin ==
  [isWindowActive |-> TRUE, temporaryOverride |-> FALSE, overrideActive |-> FALSE,
   overrideExpiry |-> 0, stats |-> ZeroPluginStats, sent |-> NoMessage]

\* a queue object of either class as its constructor leaves it: no entry, the
\* statistics zero; ok is the value enqueue returned last, cur the entry dequeue
\* removed last, rel the releases of each packet; taken counts the calls of
\* dequeue that returned a packet and cleared the entries clear removed
NewQueue ==
  [packets |-> <<>>, stats |-> ZeroStats, ok |-> TRUE,
   cur |-> [packet |-> NoPacket, enqueue_time |-> 0, priority |-> 0],
   rel |-> [i \in PacketIds |-> 0], taken |-> 0, cleared |-> 0]

NewTwin == [fifo |-> NewQueue, prio |-> NewQueue]

\* TimeWindowPlugin.h:27: getCurrentWindowState
getCurrentWindowState(pl) ==
  pl.isWindowActive /\ (~pl.temporaryOverride \/ pl.overrideActive)

\* TimeWindowPlugin.cpp:51-62: sendStatus (next_change, computed by a function
\* the sources do not define, is left out of the payload)
sendStatus(pl, cfg) ==
  [pl EXCEPT !.sent = [NoMessage EXCEPT
     !.type = "WINDOW_STATUS",
     !.is_active = pl.isWindowActive,
     !.queued_packets = pl.stats.queuedPackets,
     !.dropped_packets = pl.stats.totalDropped,
     !.window_mode = cfg.window_mode]]

\* TimeWindowPlugin.cpp:64-76: sendStats
sendStats(pl) ==
  [pl EXCEPT !.sent = [NoMessage EXCEPT
     !.type = "WINDOW_STATS",
     !.total_queued = pl.stats.totalQueued,
     !.total_dropped = pl.stats.totalDropped,
     !.total_delayed = pl.stats.totalDelayed,
     !.avg_queue_time = IF pl.stats.queuedPackets # 0
                          THEN pl.stats.sumQueueTime \div pl.stats.queuedPackets ELSE 0,
     !.max_queue_time = pl.stats.maxQueueTime,
     !.queue_overflows = pl.stats.queueOverflows]]

\* TimeWindowPlugin.cpp:89-101: handleCommand, FORCE_OPEN (open = TRUE) and
\* FORCE_CLOSE (open = FALSE); duration in seconds, now = millis()
forceWindow(pl, open, duration, now) ==
  [pl EXCEPT !.temporaryOverride = TRUE,
             !.overrideActive = open,
             !.overrideExpiry = now + (duration * 1000)]

\* TimeWindowPlugin.cpp:103-106: handleCommand, RESET_STATS
resetStats(pl) == [pl EXCEPT !.stats = ZeroPluginStats]

\* TimeWindowPlugin.cpp:131-136: recordQueueStats
recordQueueStats(pl, queueTime) ==
  [pl EXCEPT !.stats.totalQueued = (@ + 1),
             !.stats.sumQueueTime = (@ + queueTime),
             !.stats.maxQueueTime = Max(@, queueTime)]

\* TimeWindowPlugin.cpp:138-141: recordDroppedPacket
recordDroppedPacket(pl) == [pl EXCEPT !.stats.totalDropped = (@ + 1)]

\* TimeWindowPlugin.cpp:143-146: recordQueueOverflow
recordQueueOverflow(pl) == [pl EXCEPT !.stats.queueOverflows = (@ + 1)]

\* TimeWindowPlugin.cpp:148-151: updateQueuedCount
updateQueuedCount(pl, count) == [pl EXCEPT !.stats.queuedPackets = count]

\* TimeWindowPlugin::runOnce is declared (TimeWindowPlugin.h:18) and not defined in
\* the sources.  After the specification: the periodic task re-evaluates the window
\* clock into the current state, and an override whose expiry has passed is
\* deactivated.
runOnce(pl, cfg, now) ==
  [pl EXCEPT !.isWindowActive = isTimeWindowActive(cfg, now),
             !.temporaryOverride = (@ /\ now < pl.overrideExpiry)]

(***************************************************************************)
(* Inputs of the operations.  An input is enumerated only where the        *)
(* handler can read it.                                                    *)
(***************************************************************************)
IdentityRank == [i \in PacketIds |-> i]

Ranks == IF impl = "prio" /\ Len(packets) > 1 THEN Permutations(PacketIds) ELSE {IdentityRank}

FailAts == 0..Len(packets)

StaleZeros == IF \E i \in 1..Len(packets) : rel[packets[i].packet] > 0 THEN BOOLEAN ELSE {FALSE}

\* packets the mesh layer sends: only the priority queue reads more than payloadlen
PacketKinds == IF impl = "prio" THEN PlainKinds \cup UrgentKinds ELSE PlainKinds

IterMsChoices == IF impl = "prio" /\ Len(packets) > 1 THEN {0, maxProcessTime} ELSE {0}

Env(cfg, attrs, failAt, outcome, staleZero, rank, iterMs) ==
  [cfg |-> cfg, now |-> millis, disabled |-> disabled, pkt |-> attrs,
   failAt |-> failAt, outcome |-> outcome, staleZero |-> staleZero,
   rank |-> rank, iterMs |-> iterMs, plugin |-> plugin]

Queued(q, p) == \E i \in 1..Len(q) : q[i].packet = p

\* the state a handler leaves in m becomes the next state; the attributes of a
\* packet are kept for as long as the queue refers to it
Commit(m, op, p, attrs) ==
  /\ pkt' = [i \in PacketIds |-> IF Queued(m.packets, i) THEN attrs[i] ELSE NoKind]
  /\ packets' = m.packets
  /\ stats' = m.stats
  /\ metrics' = m.metrics
  /\ rel' = m.rel
  /\ tx' = m.tx
  /\ halted' = m.halted
  /\ last' = [op |-> op, p |-> p, ret |-> m.ret, gated |-> m.gated,
              attempted |-> m.attempted, drained |-> m.drained,
              processed |-> m.processed, failed |-> m.failed,
              order |-> m.order, arg |-> <<>>]

Other == [NoLast EXCEPT !.op = "other"]

(***************************************************************************)
(* Operations.                                                             *)
(***************************************************************************)
\* the mesh layer allocates packet nextId and calls RadioInterface::send on it
Send ==
  /\ ~halted
  /\ nextId <= NPackets
  /\ stats.totalQueued < MaxTotalQueued
  /\ \E kind \in PacketKinds, failAt \in FailAts, outcome \in RadioOutcomes,
        staleZero \in StaleZeros, rank \in Ranks, iterMs \in IterMsChoices :
       LET attrs == [pkt EXCEPT ![nextId] = kind]
           env   == Env(config, attrs, failAt, outcome, staleZero, rank, iterMs)
       IN  /\ nextId' = nextId + 1
           /\ Commit(DoSend(Machine, nextId, env), "send", nextId, attrs)
  /\ UNCHANGED <<twin, plugin, impl, config, millis, disabled>>

\* the periodic task calls RadioInterface::processQueuedPackets
Drain ==
  /\ ~halted
  /\ stats.totalQueued < MaxTotalQueued
  /\ \E failAt \in FailAts, staleZero \in StaleZeros, rank \in Ranks,
        iterMs \in IterMsChoices :
       Commit(DoProcess(Machine, Env(config, pkt, failAt, "OK", staleZero, rank, iterMs)),
              "drain", NoPacket, pkt)
  /\ UNCHANGED <<twin, plugin, impl, config, millis, disabled, nextId>>

\* RadioInterface::clearPacketQueue
Clear ==
  /\ ~halted
  /\ impl # "inline"
  /\ Commit(DoClear(Machine), "clear", NoPacket, pkt)
  /\ UNCHANGED <<twin, plugin, impl, config, millis, disabled, nextId>>

\* RadioInterface::disable
Disable ==
  /\ ~halted
  /\ ~disabled
  /\ disabled' = TRUE
  /\ last' = Other
  /\ UNCHANGED <<twin, plugin, impl, config, millis, packets, stats, metrics, halted, pkt, nextId, rel, tx>>

\* half an hour passes
AdvanceTime ==
  /\ ~halted
  /\ millis + TickMs <= MaxTicks * TickMs
  /\ millis' = millis + TickMs
  /\ last' = Other
  /\ UNCHANGED <<twin, plugin, impl, config, packets, stats, metrics, disabled, halted, pkt, nextId, rel, tx>>

SetConfig(c) ==
  /\ ~halted
  /\ config' = c
  /\ c # config
  /\ last' = Other
  /\ UNCHANGED <<twin, plugin, impl, millis, packets, stats, metrics, disabled, halted, pkt, nextId, rel, tx>>

\* TimeWindowCLI.cpp: 'window enable'
CliEnable ==
  SetConfig([config EXCEPT !.has_lora = TRUE, !.time_window_enabled = TRUE])

\* TimeWindowCLI.cpp: 'window disable'
CliDisable ==
  SetConfig([config EXCEPT !.time_window_enabled = FALSE])

\* TimeWindowCLI.cpp: 'window mode drop|queue|receive'
CliMode ==
  \E mode \in ValidModes : SetConfig([config EXCEPT !.window_mode = mode])

\* TimeWindowCLI.cpp: 'window queue SIZE'
CliQueue ==
  \E size \in 1..MaxCfgQueue :
    /\ ~(size < 1 \/ size > 100)
    /\ SetConfig([config EXCEPT !.window_queue_size = size])

\* AdminModule.cpp:39-47: the test that answers INVALID_SETTINGS and returns
\* before saveChanges
InvalidWindowSettings(c) ==
  c.time_window_enabled /\
  (c.window_start_hour >= 24 \/ c.window_start_minute >= 60 \/
   c.window_end_hour >= 24 \/ c.window_end_minute >= 60)

\* AdminModule.cpp: AdminModule::handleSetConfig, case meshtastic_Config_lora_tag,
\* for the request c
handleSetConfig(cfg, c) ==
  LET bad == InvalidWindowSettings(c)
      fill == c.time_window_enabled /\ c.window_mode = QUEUE_PACKETS
      d == [c EXCEPT !.window_queue_size = IF fill /\ @ = 0 THEN 32 ELSE @,
                     !.window_packet_expire_secs = IF fill /\ @ = 0 THEN 3600 ELSE @]
  IN  IF bad THEN [cfg EXCEPT !.has_lora = TRUE]
             ELSE [d EXCEPT !.has_lora = TRUE]

\* a client reads the LoRa section, sets a window mode outside the enumeration and
\* writes the section back
AdminSetConfig ==
  SetConfig(handleSetConfig(config, [config EXCEPT !.window_mode = InvalidMode]))

(***************************************************************************)
(* The command line: src/src/cli/TimeWindowCLI.cpp.  A command line is the *)
(* argv of timeWindowCmd: argv[1] the command's name "window", argv[2] the *)
(* sub-command, then its arguments.  A time or a number is given as the    *)
(* sequence of its characters, which sscanf and atoi convert.              *)
(***************************************************************************)
DigitValue(c) ==
  CASE c = "0" -> 0 [] c = "1" -> 1 [] c = "2" -> 2 [] c = "3" -> 3 [] c = "4" -> 4
    [] c = "5" -> 5 [] c = "6" -> 6 [] c = "7" -> 7 [] c = "8" -> 8 [] c = "9" -> 9
    [] OTHER -> -1

IsDigit(c) == DigitValue(c) >= 0

RECURSIVE ReadDigits(_, _, _)
\* the decimal digits of s from position i on: <<value, position after them>>
ReadDigits(s, i, acc) ==
  IF i <= Len(s) /\ IsDigit(s[i])
    THEN ReadDigits(s, i + 1, acc * 10 + DigitValue(s[i]))
    ELSE <<acc, i>>

\* the conversion %d of sscanf and the one of atoi: an optional sign, then digits
\* up to the first character that is none
ReadInt(s, i) ==
  LET neg == i <= Len(s) /\ s[i] = "-"
      pos == i <= Len(s) /\ s[i] = "+"
      j   == IF neg \/ pos THEN i + 1 ELSE i
      d   == ReadDigits(s, j, 0)
  IN  [ok |-> d[2] > j, value |-> IF neg THEN 0 - d[1] ELSE d[1], next |-> d[2]]

\* atoi(s): 0 when s does not start with a number
atoi(s) == LET r == ReadInt(s, 1) IN IF r.ok THEN r.value ELSE 0

\* sscanf(timeStr, "%d:%d", &h, &m): count is its return value
sscanfTime(s) ==
  LET a == ReadInt(s, 1)
  IN  IF ~a.ok THEN [count |-> 0, h |-> 0, m |-> 0]
      ELSE IF ~(a.next <= Len(s) /\ s[a.next] = ":")
        THEN [count |-> 1, h |-> a.value, m |-> 0]
      ELSE LET b == ReadInt(s, a.next + 1)
           IN  IF ~b.ok THEN [count |-> 1, h |-> a.value, m |-> 0]
                        ELSE [count |-> 2, h |-> a.value, m |-> b.value]

\* parseTime that tests the hour alone
parseTimeHourOnly(timeStr) ==
  LET r == sscanfTime(timeStr)
  IN  IF r.count # 2 THEN [ok |-> FALSE, hour |-> 0, minute |-> 0]
      ELSE IF r.h < 0 \/ r.h > 23 THEN [ok |-> FALSE, hour |-> 0, minute |-> 0]
      ELSE [ok |-> TRUE, hour |-> r.h, minute |-> r.m]

\* TimeWindowCLI.cpp:45-59: parseTime
parseTime(timeStr) ==
  LET r == sscanfTime(timeStr)
  IN  IF r.count # 2 THEN [ok |-> FALSE, hour |-> 0, minute |-> 0]
      ELSE IF r.h < 0 \/ r.h > 23 \/ r.m < 0 \/ r.m > 59
        THEN [ok |-> FALSE, hour |-> 0, minute |-> 0]
      ELSE [ok |-> TRUE, hour |-> r.h, minute |-> r.m]

\* what a command leaves: the configuration and whether nodeDB->saveConfig ran
Rejected(cfg) == [cfg |-> cfg, saved |-> FALSE]
Saved(cfg) == [cfg |-> cfg, saved |-> TRUE]

\* TimeWindowCLI.cpp:97-122: 'window set START END'
cmdSet(cfg, argv) ==
  IF Len(argv) # 4 THEN Rejected(cfg)
  ELSE LET start == parseTime(argv[3])
           end   == parseTime(argv[4])
       IN  IF ~start.ok THEN Rejected(cfg)
           ELSE IF ~end.ok THEN Rejected(cfg)
           ELSE Saved([cfg EXCEPT !.has_lora = TRUE,
                                  !.window_start_hour = start.hour,
                                  !.window_start_minute = start.minute,
                                  !.window_end_hour = end.hour,
                                  !.window_end_minute = end.minute])

\* TimeWindowCLI.cpp:124-145: 'window mode MODE'
cmdMode(cfg, argv) ==
  IF Len(argv) # 3 THEN Rejected(cfg)
  ELSE CASE argv[3] = "drop"    -> Saved([cfg EXCEPT !.window_mode = DROP_PACKETS])
         [] argv[3] = "queue"   -> Saved([cfg EXCEPT !.window_mode = QUEUE_PACKETS])
         [] argv[3] = "receive" -> Saved([cfg EXCEPT !.window_mode = RECEIVE_ONLY])
         [] OTHER               -> Rejected(cfg)

\* TimeWindowCLI.cpp:147-163: 'window queue SIZE'
cmdQueue(cfg, argv) ==
  IF Len(argv) # 3 THEN Rejected(cfg)
  ELSE LET size == atoi(argv[3])
       IN  IF size < 1 \/ size > 100 THEN Rejected(cfg)
           ELSE Saved([cfg EXCEPT !.window_queue_size = size])

\* TimeWindowCLI.cpp:165-181: 'window expire SECONDS'
cmdExpire(cfg, argv) ==
  IF Len(argv) # 3 THEN Rejected(cfg)
  ELSE LET secs == atoi(argv[3])
       IN  IF secs < 1 THEN Rejected(cfg)
           ELSE Saved([cfg EXCEPT !.window_packet_expire_secs = secs])

\* TimeWindowCLI.cpp:61-184: timeWindowCmd
timeWindowCmd(cfg, argv) ==
  IF Len(argv) < 2 THEN Rejected(cfg)
  ELSE CASE argv[2] = "status"  -> Rejected(cfg)
         [] argv[2] = "enable"  -> Saved([cfg EXCEPT !.has_lora = TRUE,
                                                     !.time_window_enabled = TRUE])
         [] argv[2] = "disable" -> Saved([cfg EXCEPT !.time_window_enabled = FALSE])
         [] argv[2] = "set"     -> cmdSet(cfg, argv)
         [] argv[2] = "mode"    -> cmdMode(cfg, argv)
         [] argv[2] = "queue"   -> cmdQueue(cfg, argv)
         [] argv[2] = "expire"  -> cmdExpire(cfg, argv)
         [] OTHER               -> Rejected(cfg)

\* windows the node is provisioned with: 00:30-01:00 and 01:00-00:30
WindowChoices == { <<0, 30, 1, 0>>, <<1, 0, 0, 30>> }

\* configurations the node boots with (the configuration is kept across boots)
BootConfigs ==
  { [has_lora |-> TRUE, time_window_enabled |-> TRUE,
     window_start_hour |-> w[1], window_start_minute |-> w[2],
     window_end_hour |-> w[3], window_end_minute |-> w[4],
     window_mode |-> QUEUE_PACKETS, window_queue_size |-> 1,
     window_packet_expire_secs |-> DefaultExpirySeconds] : w \in WindowChoices }

Init ==
  /\ impl \in Impls
  /\ config \in BootConfigs
  /\ millis = 0
  /\ packets = <<>>
  /\ stats = ZeroStats
  /\ metrics = ZeroMetrics
  /\ disabled = FALSE
  /\ halted = FALSE
  /\ pkt = [i \in PacketIds |-> NoKind]
  /\ nextId = 1
  /\ rel = [i \in PacketIds |-> 0]
  /\ tx = [i \in PacketIds |-> 0]
  /\ plugin = NewPlugin
  /\ twin = NewTwin
  /\ last = NoLast

Next ==
  \/ Send
  \/ Drain
  \/ Clear
  \/ Disable
  \/ AdvanceTime
  \/ CliEnable
  \/ CliDisable
  \/ CliMode
  \/ CliQueue
  \/ AdminSetConfig

Spec == Init /\ [][Next]_vars

(***************************************************************************)
(* SendSpec: the node as the sources under src/ drive it, where            *)
(* processQueuedPackets runs only from send().                             *)
(***************************************************************************)
SendNext ==
  \/ Send
  \/ AdvanceTime
  \/ CliEnable
  \/ CliDisable
  \/ CliMode
  \/ CliQueue
  \/ AdminSetConfig

SendSpec == Init /\ [][SendNext]_vars

(***************************************************************************)
(* AdmissionSpec: the node boots with any of the configurations below, at  *)
(* any of the instants below, and the mesh layer then calls send() on one  *)
(* packet after the other; nothing else happens.                           *)
(***************************************************************************)
\* windows: 22:00-04:00, 17:00-09:00 (across midnight), 09:00-17:00, 00:00-23:59
\* (same day) and the empty window 09:30-09:30
AdmissionWindows ==
  { <<22, 0, 4, 0>>, <<17, 0, 9, 0>>, <<9, 0, 17, 0>>, <<0, 0, 23, 59>>, <<9, 30, 9, 30>> }

\* <<day, hour, minute, millisecond of the minute>> since boot
AdmissionInstants ==
  { <<0, 0, 0, 0>>, <<0, 3, 59, 59999>>, <<0, 4, 0, 0>>, <<0, 8, 59, 59999>>,
    <<0, 9, 0, 0>>, <<0, 9, 29, 0>>, <<0, 9, 30, 0>>, <<0, 16, 59, 59999>>,
    <<0, 17, 0, 0>>, <<0, 21, 59, 59999>>, <<0, 22, 0, 0>>, <<0, 23, 59, 59999>>,
    <<1, 0, 0, 0>>, <<1, 3, 59, 0>>, <<1, 17, 0, 1>> }

InstantMs(t) == ((t[1] * 24 + t[2]) * 60 + t[3]) * 60000 + t[4]

AdmissionConfigs ==
  { [has_lora |-> TRUE, time_window_enabled |-> en,
     window_start_hour |-> w[1], window_start_minute |-> w[2],
     window_end_hour |-> w[3], window_end_minute |-> w[4],
     window_mode |-> mode, window_queue_size |-> size,
     window_packet_expire_secs |-> DefaultExpirySeconds] :
       en \in BOOLEAN, w \in AdmissionWindows, mode \in Modes, size \in 1..MaxCfgQueue }

AdmissionInit ==
  /\ impl \in Impls
  /\ config \in AdmissionConfigs
  /\ millis \in { InstantMs(t) : t \in AdmissionInstants }
  /\ packets = <<>>
  /\ stats = ZeroStats
  /\ metrics = ZeroMetrics
  /\ disabled = FALSE
  /\ halted = FALSE
  /\ pkt = [i \in PacketIds |-> NoKind]
  /\ nextId = 1
  /\ rel = [i \in PacketIds |-> 0]
  /\ tx = [i \in PacketIds |-> 0]
  /\ plugin = NewPlugin
  /\ twin = NewTwin
  /\ last = NoLast

AdmissionNext == Send

AdmissionSpec == AdmissionInit /\ [][AdmissionNext]_vars

(***************************************************************************)
(* DrainSpec: the node boots in QueuePackets mode with any of the          *)
(* configurations below; the mesh layer sends, the periodic task drains,   *)
(* the operator clears the queue, and time passes.  The configuration is   *)
(* not changed.                                                            *)
(***************************************************************************)
\* PacketQueue::QueueStats::reset (PacketQueue.h:99, PriorityPacketQueue.h:128)
StatsReset ==
  /\ ~halted
  /\ impl # "inline"
  /\ stats # ZeroStats
  /\ stats' = ZeroStats
  /\ last' = [NoLast EXCEPT !.op = "reset"]
  /\ UNCHANGED <<twin, plugin, impl, config, millis, packets, metrics, disabled, halted, pkt, nextId, rel, tx>>

\* 'window expire SECONDS' settings the node is provisioned with: half an hour
\* and the hour the queue classes default to
ExpiryChoices == {DefaultExpirySeconds \div 2, DefaultExpirySeconds}

DrainConfigs ==
  { [has_lora |-> TRUE, time_window_enabled |-> TRUE,
     window_start_hour |-> w[1], window_start_minute |-> w[2],
     window_end_hour |-> w[3], window_end_minute |-> w[4],
     window_mode |-> QUEUE_PACKETS, window_queue_size |-> QueueCapacity,
     window_packet_expire_secs |-> exp] :
       w \in WindowChoices, exp \in ExpiryChoices }

DrainInit ==
  /\ impl \in Impls
  /\ config \in DrainConfigs
  /\ millis = 0
  /\ packets = <<>>
  /\ stats = ZeroStats
  /\ metrics = ZeroMetrics
  /\ disabled = FALSE
  /\ halted = FALSE
  /\ pkt = [i \in PacketIds |-> NoKind]
  /\ nextId = 1
  /\ rel = [i \in PacketIds |-> 0]
  /\ tx = [i \in PacketIds |-> 0]
  /\ plugin = NewPlugin
  /\ twin = NewTwin
  /\ last = NoLast

DrainNext ==
  \/ Send
  \/ Drain
  \/ Clear
  \/ AdvanceTime

DrainSpec == DrainInit /\ [][DrainNext]_vars

(***************************************************************************)
(* StatsSpec: as DrainSpec, with the queue drained from send() only and    *)
(* the operator resetting the queue's statistics at any time.              *)
(***************************************************************************)
StatsNext ==
  \/ Send
  \/ Clear
  \/ StatsReset
  \/ AdvanceTime

StatsSpec == DrainInit /\ [][StatsNext]_vars

(***************************************************************************)
(* The plug-in's operations.  The mesh layer delivers a TimeWindow message *)
(* to handleReceivedProtobuf, which calls sendStatus, sendStats or         *)
(* handleCommand; the record* and update* methods are public and called by *)
(* the radio layer.                                                        *)
(***************************************************************************)
\* seconds a FORCE_OPEN / FORCE_CLOSE command asks for: one second and one hour
ForceDurations == {1, 3600}

\* queue times, in seconds, handed to recordQueueStats
QueueTimes == {1, 3}

PluginCommit(pl, op) ==
  /\ ~halted
  /\ plugin' = pl
  /\ last' = [NoLast EXCEPT !.op = op]
  /\ UNCHANGED <<twin, impl, config, millis, packets, stats, metrics, disabled, halted,
                 pkt, nextId, rel, tx>>

\* handleReceivedProtobuf, WINDOW_STATUS, and handleCommand, GET_STATUS
PluginGetStatus == PluginCommit(sendStatus(plugin, config), "get_status")

\* handleReceivedProtobuf, WINDOW_STATS, and handleCommand, GET_STATS
PluginGetStats == PluginCommit(sendStats(plugin), "get_stats")

\* handleCommand, FORCE_OPEN
PluginForceOpen ==
  \E duration \in ForceDurations :
    PluginCommit(forceWindow(plugin, TRUE, duration, millis), "force_open")

\* handleCommand, FORCE_CLOSE
PluginForceClose ==
  \E duration \in ForceDurations :
    PluginCommit(forceWindow(plugin, FALSE, duration, millis), "force_close")

\* handleCommand, RESET_STATS
PluginResetStats == PluginCommit(resetStats(plugin), "reset_stats")

\* handleCommand, CLEAR_QUEUE (TimeWindowPlugin.cpp:108-114), service.radio set
PluginClearQueue ==
  /\ ~halted
  /\ impl # "inline"
  /\ Commit(DoClear(Machine), "clear_queue", NoPacket, pkt)
  /\ plugin' = updateQueuedCount(plugin, 0)
  /\ UNCHANGED <<twin, impl, config, millis, disabled, nextId>>

RecordQueueStats ==
  /\ plugin.stats.totalQueued < MaxRecorded
  /\ \E queueTime \in QueueTimes :
       PluginCommit(recordQueueStats(plugin, queueTime), "record")

RecordDroppedPacket ==
  /\ plugin.stats.totalDropped < MaxRecorded
  /\ PluginCommit(recordDroppedPacket(plugin), "record")

RecordQueueOverflow ==
  /\ plugin.stats.queueOverflows < MaxRecorded
  /\ PluginCommit(recordQueueOverflow(plugin), "record")

UpdateQueuedCount ==
  \E count \in 0..QueueCapacity :
    /\ count # plugin.stats.queuedPackets
    /\ PluginCommit(updateQueuedCount(plugin, count), "record")

\* the OSThread scheduler calls runOnce
RunOnce == PluginCommit(runOnce(plugin, config, millis), "run_once")

(***************************************************************************)
(* TelemetrySpec: the radio layer reports to the plug-in, remote nodes ask *)
(* for its status and statistics, the operator resets them.                *)
(***************************************************************************)
TelemetryNext ==
  \/ RecordQueueStats
  \/ RecordDroppedPacket
  \/ RecordQueueOverflow
  \/ UpdateQueuedCount
  \/ PluginGetStatus
  \/ PluginGetStats
  \/ PluginResetStats

TelemetrySpec == DrainInit /\ [][TelemetryNext]_vars

(***************************************************************************)
(* OverrideSpec: the mesh layer sends, time passes, the periodic task runs *)
(* and the operator forces the window open or closed, clears the queue and *)
(* resets the statistics.                                                  *)
(***************************************************************************)
OverrideNext ==
  \/ Send
  \/ AdvanceTime
  \/ RunOnce
  \/ PluginForceOpen
  \/ PluginForceClose
  \/ PluginResetStats
  \/ PluginClearQueue
  \/ RecordDroppedPacket

OverrideSpec == DrainInit /\ [][OverrideNext]_vars

(***************************************************************************)
(* ForcedSendSpec: the mesh layer sends while the operator forces the      *)
(* window open or closed and time passes.                                  *)
(***************************************************************************)
ForcedSendNext ==
  \/ Send
  \/ AdvanceTime
  \/ PluginForceOpen
  \/ PluginForceClose

ForcedSendSpec == DrainInit /\ [][ForcedSendNext]_vars

(***************************************************************************)
(* ConfigSpec: the operator types 'window' commands and remote clients     *)
(* send set-config requests, in any order.                                 *)
(***************************************************************************)
\* times typed: 0:30, 1:00, 24:00, 0:60 and 7
TimeWords ==
  { <<"0", ":", "3", "0">>, <<"1", ":", "0", "0">>, <<"2", "4", ":", "0", "0">>,
    <<"0", ":", "6", "0">>, <<"7">> }

\* numbers typed: 3, 0, 101, -1 and x
NumberWords ==
  { <<"3">>, <<"0">>, <<"1", "0", "1">>, <<"-", "1">>, <<"x">> }

ModeWords == {"drop", "queue", "receive", "bogus"}

\* the console calls timeWindowCmd on the line argv
CliRun(argv) ==
  LET r == timeWindowCmd(config, argv)
  IN  /\ ~halted
      /\ config' = r.cfg
      /\ last' = [NoLast EXCEPT !.op = "cli",
                                !.ret = IF r.saved THEN "saved" ELSE "not saved",
                                !.arg = argv]
      /\ UNCHANGED <<twin, plugin, impl, millis, packets, stats, metrics, disabled, halted,
                     pkt, nextId, rel, tx>>

CliCommand ==
  \/ \E word \in {"status", "enable", "disable", "bogus"} : CliRun(<<"window", word>>)
  \/ \E start \in TimeWords, end \in TimeWords : CliRun(<<"window", "set", start, end>>)
  \/ \E start \in TimeWords : CliRun(<<"window", "set", start>>)
  \/ \E mode \in ModeWords : CliRun(<<"window", "mode", mode>>)
  \/ \E size \in NumberWords : CliRun(<<"window", "queue", size>>)
  \/ \E secs \in NumberWords : CliRun(<<"window", "expire", secs>>)

\* LoRa sections remote clients send: window 01:00-00:30 or 24:00-00:30, enabled
\* or not, a mode of the enumeration or none, queue size and expiry left zero
AdminRequests ==
  { [has_lora |-> TRUE, time_window_enabled |-> en,
     window_start_hour |-> sh, window_start_minute |-> 0,
     window_end_hour |-> 0, window_end_minute |-> 30,
     window_mode |-> mode, window_queue_size |-> 0,
     window_packet_expire_secs |-> 0] :
       en \in BOOLEAN, sh \in {1, 24}, mode \in {DROP_PACKETS, QUEUE_PACKETS, InvalidMode} }

\* AdminModule::handleSetConfig on a request
AdminSet ==
  \E c \in AdminRequests :
    /\ ~halted
    /\ config' = handleSetConfig(config, c)
    /\ last' = [NoLast EXCEPT !.op = "set_config",
                              !.ret = IF InvalidWindowSettings(c) THEN "rejected"
                                                                  ELSE "saved"]
    /\ UNCHANGED <<twin, plugin, impl, millis, packets, stats, metrics, disabled, halted,
                   pkt, nextId, rel, tx>>

ConfigNext ==
  \/ CliCommand
  \/ AdminSet

ConfigSpec == Init /\ [][ConfigNext]_vars

(***************************************************************************)
(* FreshSpec: as ConfigSpec, on a node that may never have had a LoRa       *)
(* section stored: the configuration is then the zero-initialised object.  *)
(***************************************************************************)
\* the global configuration object before any section was stored
FreshConfig ==
  [has_lora |-> FALSE, time_window_enabled |-> FALSE,
   window_start_hour |-> 0, window_start_minute |-> 0,
   window_end_hour |-> 0, window_end_minute |-> 0,
   window_mode |-> 0, window_queue_size |-> 0, window_packet_expire_secs |-> 0]

FreshInit ==
  /\ impl \in Impls
  /\ config \in BootConfigs \cup {FreshConfig}
  /\ millis = 0
  /\ packets = <<>>
  /\ stats = ZeroStats
  /\ metrics = ZeroMetrics
  /\ disabled = FALSE
  /\ halted = FALSE
  /\ pkt = [i \in PacketIds |-> NoKind]
  /\ nextId = 1
  /\ rel = [i \in PacketIds |-> 0]
  /\ tx = [i \in PacketIds |-> 0]
  /\ plugin = NewPlugin
  /\ twin = NewTwin
  /\ last = NoLast

\* the window switched on or off, or its mode chosen, at the console
CliSwitch ==
  \/ \E word \in {"enable", "disable"} : CliRun(<<"window", word>>)
  \/ \E mode \in ModeWords : CliRun(<<"window", "mode", mode>>)

FreshNext ==
  \/ CliSwitch
  \/ AdminSet

FreshSpec == FreshInit /\ [][FreshNext]_vars

(***************************************************************************)
(* TwinSpec: a PacketQueue and a PriorityPacketQueue object, built with    *)
(* the same capacity and expiry, are given the same calls of enqueue,      *)
(* dequeue and clear.                                                      *)
(***************************************************************************)
\* packets of every combination of the fields calculatePriority reads
AttrKinds ==
  { [payloadlen |-> 1, want_ack |-> w, priority |-> pr, decoded |-> d, portnum |-> port] :
      w \in BOOLEAN, pr \in {"DEFAULT", "ACK", "RELIABLE"}, d \in BOOLEAN,
      port \in {"TEXT", "POSITION", "EMERGENCY"} }

\* the packets the two objects are given: a text message, a position report and
\* an emergency report, of scores 1, 2 and 5
TwinKinds == { k \in AttrKinds : k.decoded /\ ~k.want_ack /\ k.priority = "DEFAULT" }

NoEntry == [packet |-> NoPacket, enqueue_time |-> 0, priority |-> 0]

\* PacketQueue::dequeue, PacketQueue.h:45-59
dequeueFifo(q, now) ==
  IF q.packets = <<>> THEN [q EXCEPT !.cur = NoEntry]
  ELSE [FifoDequeue(q, now) EXCEPT !.taken = @ + 1]

\* PriorityPacketQueue::dequeue, PriorityPacketQueue.h:79-93
dequeuePrio(q, now, rank) ==
  IF q.packets = <<>> THEN [q EXCEPT !.cur = NoEntry]
  ELSE [PrioDequeue(q, now, rank) EXCEPT !.taken = @ + 1]

TwinCommit(f, p, op) ==
  /\ twin' = [fifo |-> f, prio |-> p]
  /\ last' = [NoLast EXCEPT !.op = op]
  /\ UNCHANGED <<plugin, impl, config, millis, packets, stats, metrics, disabled,
                 halted, pkt, nextId, rel, tx>>

\* enqueue(p) on both objects; the priority queue scores the packet
TwinEnqueue ==
  /\ twin.fifo.stats.totalQueued + twin.fifo.stats.queueOverflows <= MaxTotalQueued
  /\ \E p \in PacketIds, kind \in TwinKinds :
       TwinCommit(QEnqueue(twin.fifo, p, millis, 0),
                  QEnqueue(twin.prio, p, millis, calculatePriority(kind)),
                  "enqueue")

\* dequeue() on both objects
TwinDequeue ==
  \E rank \in Permutations(PacketIds) :
    TwinCommit(dequeueFifo(twin.fifo, millis), dequeuePrio(twin.prio, millis, rank),
               "dequeue")

\* clear() on both objects
TwinClear ==
  TwinCommit([QClear(twin.fifo) EXCEPT !.cleared = @ + Len(twin.fifo.packets)],
             [QClear(twin.prio) EXCEPT !.cleared = @ + Len(twin.prio.packets)],
             "clear")

\* cleanExpired() on both objects
TwinCleanExpired ==
  TwinCommit(QCleanExpired(twin.fifo, millis), QCleanExpired(twin.prio, millis),
             "clean_expired")

\* half an hour passes for the two objects
TwinTick ==
  /\ millis + TickMs <= MaxTicks * TickMs
  /\ millis' = millis + TickMs
  /\ last' = Other
  /\ UNCHANGED <<twin, plugin, impl, config, packets, stats, metrics, disabled, halted,
                 pkt, nextId, rel, tx>>

TwinNext ==
  \/ TwinEnqueue
  \/ TwinDequeue
  \/ TwinClear

\* the two objects are members of no RadioInterface: the rest of the state is that
\* of a node just booted
TwinInit == Init /\ impl = "prio" /\ config.window_start_hour = 0

TwinSpec == TwinInit /\ [][TwinNext]_vars

(***************************************************************************)
(* LedgerSpec: as TwinSpec, with cleanExpired called at any time and time  *)
(* passing; QueueStats::reset is not called.                               *)
(***************************************************************************)
\* enqueue on both objects of the packets of a pool used in turn, each a text
\* message or an emergency report
LedgerEnqueue ==
  LET calls == twin.fifo.stats.totalQueued + twin.fifo.stats.queueOverflows
      p     == (calls % NPackets) + 1
  IN  /\ calls <= MaxTotalQueued
      /\ \E kind \in { k \in TwinKinds : k.portnum # "POSITION" } :
           TwinCommit(QEnqueue(twin.fifo, p, millis, 0),
                      QEnqueue(twin.prio, p, millis, calculatePriority(kind)),
                      "enqueue")

\* dequeue() on both objects, the heap keeping equal scores in arrival order
LedgerDequeue ==
  TwinCommit(dequeueFifo(twin.fifo, millis), dequeuePrio(twin.prio, millis, IdentityRank),
             "dequeue")

LedgerNext ==
  \/ LedgerEnqueue
  \/ LedgerDequeue
  \/ TwinClear
  \/ TwinCleanExpired
  \/ TwinTick

LedgerSpec == TwinInit /\ [][LedgerNext]_vars

(***************************************************************************)
(* Properties.                                                             *)
(***************************************************************************)
Enabled == config.has_lora /\ config.time_window_enabled

StartMinute == config.window_start_hour * 60 + config.window_start_minute

EndMinute == config.window_end_hour * 60 + config.window_end_minute

\* the minute of the day millis() falls in, a day being 1440 minutes of 60000 ms
CurrentMinute == (millis \div 60000) % 1440

\* the time window is enabled and the current time is outside it
Closed == Enabled /\ ~isOperationAllowed(config, millis)

Handed == 1..(nextId - 1)

CountOf(S) == Cardinality(S)

\* C1 (the part the code breaks): no packet is released to the pool twice, no
\* queue entry refers to a packet that was already released or handed to the
\* radio, and no packet is both released and handed to the radio.
C1_SingleOwner ==
  \A p \in Handed :
    /\ rel[p] <= 1
    /\ tx[p] <= 1
    /\ ~(Queued(packets, p) /\ (rel[p] > 0 \/ tx[p] > 0))
    /\ ~(rel[p] > 0 /\ tx[p] > 0)

\* C2: a send() called while the time window is enabled and closed hands no packet
\* to the radio and starts no drain, and leaves its packet either in the queue or
\* released to the pool.
C2_ClosedSendNeverTransmits ==
  (last.op = "send" /\ Closed) =>
    /\ last.attempted = {}
    /\ ~last.drained
    /\ (Queued(packets, last.p) \/ rel[last.p] = 1)

\* C3: a call of processQueuedPackets made while the window is closed, or while
\* the time window is disabled, changes neither the queue nor the statistics,
\* releases nothing and hands nothing to the radio.
C3_DrainNoOpOutsideWindow ==
  [][(last'.op = "drain" /\ (Closed \/ ~Enabled)) =>
       /\ packets' = packets
       /\ stats' = stats
       /\ rel' = rel
       /\ tx' = tx
       /\ last'.attempted = {}]_vars

\* C4: the queue never holds more packets than the configured queue size.
C4_QueueWithinConfiguredSize ==
  Len(packets) <= config.window_queue_size

\* C5: N sends into an empty queue, with the window closed in QueuePackets mode and
\* queue size M, leave min(N, M) packets queued, the overflow counter at
\* max(0, N - M), and max(0, N - M) packets released, each once.
C5_CapacityAccounting ==
  (Closed /\ config.window_mode = QUEUE_PACKETS) =>
    LET N == nextId - 1
        M == config.window_queue_size
    IN  /\ Len(packets) = Min(N, M)
        /\ stats.queueOverflows = Max(0, N - M)
        /\ CountOf({p \in Handed : Queued(packets, p) /\ rel[p] = 0}) = Min(N, M)
        /\ CountOf({p \in Handed : ~Queued(packets, p) /\ rel[p] = 1}) = Max(0, N - M)

\* C6: an enabled window whose start is later in the day than its end is open at
\* minute c exactly when c >= start or c < end; send() passes its packet on
\* exactly then.
C6_WrapWindow ==
  (Enabled /\ StartMinute > EndMinute) =>
    LET open == (CurrentMinute >= StartMinute) \/ (CurrentMinute < EndMinute)
    IN  /\ isOperationAllowed(config, millis) = open
        /\ isTimeWindowActive(config, millis) = open
        /\ (last.op = "send" => last.gated = ~open)

\* 22:00-04:00 at 03:59: send() found the window open
C6_Witness ==
  /\ Enabled
  /\ StartMinute = 22 * 60 /\ EndMinute = 4 * 60
  /\ CurrentMinute = 3 * 60 + 59
  /\ last.op = "send" /\ ~last.gated

\* C7: an enabled window with start <= end is open at minute c exactly when
\* start <= c < end: the start minute is inside, the end minute outside.
C7_SameDayWindow ==
  (Enabled /\ StartMinute <= EndMinute) =>
    LET open == (StartMinute <= CurrentMinute) /\ (CurrentMinute < EndMinute)
    IN  /\ isOperationAllowed(config, millis) = open
        /\ isTimeWindowActive(config, millis) = open
        /\ (last.op = "send" => last.gated = ~open)

\* 09:00-17:00 at 17:00: send() found the window closed
C7_Witness ==
  /\ Enabled
  /\ StartMinute = 9 * 60 /\ EndMinute = 17 * 60
  /\ CurrentMinute = 17 * 60
  /\ last.op = "send" /\ last.gated

\* C8: with the time window not enabled the window check answers open whatever
\* the time and the configured window, and send() neither queues nor discards its
\* packet on account of the window.
C8_DisabledPassthrough ==
  ~config.time_window_enabled =>
    /\ isOperationAllowed(config, millis)
    /\ isTimeWindowActive(config, millis)
    /\ (last.op = "send" =>
          /\ ~last.gated
          /\ ~Queued(packets, last.p)
          /\ stats.queueOverflows = 0
          /\ metrics.dropCount = 0)

\* window 09:00-17:00 not enabled, 21:59: send() handed its packet to the radio
C8_Witness ==
  /\ ~config.time_window_enabled
  /\ StartMinute = 9 * 60 /\ EndMinute = 17 * 60
  /\ CurrentMinute = 21 * 60 + 59
  /\ last.op = "send" /\ last.ret = "ERRNO_OK" /\ tx[last.p] = 1

\* C9: a send() called in DropPackets mode with the window closed leaves the queue
\* size as it was and adds exactly one to a discard counter.
C9_DropCountsOne ==
  [][(last'.op = "send" /\ Closed /\ config.window_mode = DROP_PACKETS) =>
       /\ Len(packets') = Len(packets)
       /\ metrics'.dropCount = metrics.dropCount + 1]_vars

\* what send() on the next packet, of attributes kind, does under mode
SendUnder(mode, kind) ==
  DoSend(Machine, nextId,
         Env([config EXCEPT !.window_mode = mode], [pkt EXCEPT ![nextId] = kind],
             0, "OK", FALSE, IdentityRank, 0))

\* C10: with the window closed, send() in ReceiveOnly mode does what send() in
\* DropPackets mode does from the same state: the same return value, queue and
\* counters, the packet released once and not handed to the radio.
C10_ReceiveOnlyAsDrop ==
  (Closed /\ ~halted /\ nextId <= NPackets) =>
    \A kind \in PacketKinds :
      LET ro == SendUnder(RECEIVE_ONLY, kind)
          dr == SendUnder(DROP_PACKETS, kind)
      IN  /\ ro = dr
          /\ ro.ret = "ERRNO_NO_RADIO"
          /\ ro.packets = packets
          /\ ro.rel = [rel EXCEPT ![nextId] = 1]
          /\ ro.tx = tx
          /\ ro.attempted = {}

\* a send() in ReceiveOnly mode, window closed, with a packet waiting in the queue
C10_Witness ==
  /\ Closed
  /\ config.window_mode = RECEIVE_ONLY
  /\ last.op = "send" /\ last.gated /\ last.ret = "ERRNO_NO_RADIO"
  /\ rel[last.p] = 1 /\ tx[last.p] = 0
  /\ Len(packets) > 0

\* C11: a send() called in QueuePackets mode with the window closed and fewer
\* packets queued than the configured queue size returns success, adds exactly
\* one entry to the queue and one to totalQueued, and neither hands the packet to
\* the radio nor releases it.
C11_QueueAcceptsBelowConfiguredSize ==
  [][(/\ last'.op = "send"
      /\ Closed
      /\ config.window_mode = QUEUE_PACKETS
      /\ Len(packets) < config.window_queue_size) =>
       /\ last'.ret = "ERRNO_OK"
       /\ Len(packets') = Len(packets) + 1
       /\ Queued(packets', last'.p)
       /\ stats'.totalQueued = stats.totalQueued + 1
       /\ tx' = tx
       /\ rel' = rel]_vars

\* C12: a send() that ends in a discard (DropPackets or ReceiveOnly with the window
\* closed, QueuePackets with the queue full) releases its packet exactly once and
\* leaves the queue as it was; a send() that ends in an enqueue releases nothing.
C12_DiscardReleasesOnce ==
  [][(last'.op = "send" /\ last'.gated /\ config.window_mode \in ValidModes) =>
       /\ (config.window_mode \in {DROP_PACKETS, RECEIVE_ONLY} =>
             last'.ret = "ERRNO_NO_RADIO")
       /\ last'.ret \in {"ERRNO_NO_RADIO", "ERRNO_OK"}
       /\ (last'.ret = "ERRNO_NO_RADIO" =>
             /\ rel[last'.p] = 0
             /\ rel' = [rel EXCEPT ![last'.p] = 1]
             /\ packets' = packets)
       /\ (last'.ret = "ERRNO_OK" =>
             /\ rel' = rel
             /\ rel'[last'.p] = 0
             /\ Queued(packets', last'.p))]_vars

\* a send() in QueuePackets mode found the queue full and released its packet
C12_Witness ==
  /\ Closed
  /\ config.window_mode = QUEUE_PACKETS
  /\ last.op = "send" /\ last.gated /\ last.ret = "ERRNO_NO_RADIO"
  /\ rel[last.p] = 1
  /\ ~Queued(packets, last.p)
  /\ Len(packets) > 0

\* the packets the queue refers to
QueuedIds(q) == { q[i].packet : i \in 1..Len(q) }

\* the entries an eviction run at millis() = now must remove, by the configured
\* 'window expire' setting
ExpiredByConfig(q, now) ==
  { i \in 1..Len(q) : (now - q[i].enqueue_time) >= config.window_packet_expire_secs * 1000 }

\* C13: cleanExpired of the FIFO and of the priority queue, called at any time,
\* removes exactly the entries whose age is at least the configured packet expiry
\* and keeps every other entry; it adds the number of entries removed to
\* expiredPackets and releases each removed packet once.
C13_EvictsExactlyExpired ==
  impl \in {"fifo", "prio"} =>
    LET r    == QCleanExpired(Machine, millis)
        gone == ExpiredByConfig(packets, millis)
        keep == [i \in 1..Len(packets) |-> i \notin gone]
    IN  /\ QueuedIds(r.packets) = { packets[i].packet : i \in (1..Len(packets)) \ gone }
        /\ Len(r.packets) = Len(packets) - Cardinality(gone)
        /\ \A i \in 1..Len(packets) :
              keep[i] => \E j \in 1..Len(r.packets) : r.packets[j] = packets[i]
        /\ r.stats = [stats EXCEPT !.expiredPackets = @ + Cardinality(gone)]
        /\ \A p \in PacketIds :
              r.rel[p] = IF \E i \in gone : packets[i].packet = p
                           THEN Bump(rel[p]) ELSE rel[p]
        /\ r.tx = tx

\* the largest priority among the entries of a non-empty queue
MaxPriority(q) ==
  CHOOSE v \in { q[i].priority : i \in 1..Len(q) } :
    \A i \in 1..Len(q) : q[i].priority <= v

\* the packets of the queue a call handed to the radio successfully
SentFromQueue == { p \in QueuedIds(packets) : tx'[p] # tx[p] }

\* C14: in the priority queue every entry of a live packet carries its score,
\* dequeue() returns an entry of maximal score and removes that entry only, two
\* dequeues in a row return scores in non-increasing order, and a drain hands no
\* queued packet to the radio while a packet of higher score stays behind.
C14_HighestScoreFirst ==
  [][impl = "prio" =>
       /\ \A i \in 1..Len(packets) :
             rel[packets[i].packet] = 0 =>
               packets[i].priority = calculatePriority(pkt[packets[i].packet])
       /\ packets # <<>> =>
             \A rank \in Permutations(PacketIds) :
               LET d1 == PrioDequeue(Machine, millis, rank)
               IN  /\ d1.cur.priority = MaxPriority(packets)
                   /\ \E i \in 1..Len(packets) :
                        packets[i] = d1.cur /\ d1.packets = RemoveAt(packets, i)
                   /\ d1.packets # <<>> =>
                        PrioDequeue(d1, millis, rank).cur.priority <= d1.cur.priority
       /\ last'.drained =>
             \A i, j \in 1..Len(packets) :
               (/\ packets[i].packet \in SentFromQueue
                /\ packets[j].packet \notin SentFromQueue
                /\ Queued(packets', packets[j].packet)
                /\ rel'[packets[j].packet] = rel[packets[j].packet]) =>
                 packets[i].priority >= packets[j].priority]_vars

\* a drain of the priority queue handed packet 2, queued after packet 1 and of
\* higher score, to the radio and left packet 1 in the queue
C14_Witness ==
  /\ impl = "prio"
  /\ last.op = "drain" /\ last.drained /\ last.processed = 1
  /\ tx[2] = 1 /\ tx[1] = 0
  /\ metrics.highPriorityCount = 1
  /\ \E i \in 1..Len(packets) : packets[i].packet = 1 /\ packets[i].priority = 1

\* C15: when sendTo fails for a packet dequeued by a drain, that packet goes back
\* into the queue unreleased, it is the only packet the cycle enqueues, every
\* packet not yet dequeued stays where it was, unattempted, the packets sent before
\* the failure are the cycle's processed count (0 when the first one fails), and
\* the node keeps running.
C15_FailedTransmitRequeued ==
  [][(/\ last'.drained
      /\ last'.failed # <<>>
      /\ last'.failed[1] \in last'.attempted) =>
       LET f == last'.failed[1]
       IN  /\ Len(last'.failed) = 1
           /\ f \in QueuedIds(packets)
           /\ Queued(packets', f)
           /\ rel'[f] = rel[f] /\ tx'[f] = tx[f]
           /\ stats'.totalQueued = stats.totalQueued + 1
           /\ last'.attempted \cap QueuedIds(packets) = SentFromQueue \cup {f}
           /\ Cardinality(SentFromQueue) = last'.processed
           /\ \A i \in 1..Len(packets) :
                LET q == packets[i].packet
                IN  (q # f /\ q \notin SentFromQueue /\ rel'[q] = rel[q]) =>
                      \E j \in 1..Len(packets') : packets'[j] = packets[i]
           /\ \A j \in 1..Len(packets') : packets'[j].packet \in QueuedIds(packets)
           /\ ~halted' /\ disabled' = disabled]_vars

\* a drain whose first sendTo failed: packet 1 is back in the queue, nothing was
\* processed and the other queued packet was not touched
C15_Witness ==
  /\ last.op = "drain" /\ last.drained
  /\ last.failed = <<1>> /\ last.attempted = {1} /\ last.processed = 0
  /\ Queued(packets, 1) /\ Queued(packets, 2)
  /\ rel = [p \in PacketIds |-> 0] /\ tx = [p \in PacketIds |-> 0]
  /\ ~halted

\* C16: every call of processQueuedPackets returns, and between its entry and its
\* return at most MAX_PACKETS_PER_CYCLE queued packets are handed to the radio
\* successfully and at most one sendPacket fails.
C16_DrainBounded ==
  [][last'.op = "drain" =>
       /\ ~halted'
       /\ Cardinality(SentFromQueue) <= MAX_PACKETS_PER_CYCLE
       /\ Len(last'.failed) <= 1]_vars

\* C17: send() drains the queue only with the window open and, in the priority
\* variant, only when MIN_QUEUE_PROCESS_INTERVAL has passed since the drain time it
\* recorded; of two send() calls that follow each other with no time in between,
\* the second does not drain.
C17_SendDrainRateLimited ==
  [][(last'.op = "send" /\ last'.drained) =>
       /\ Enabled /\ isOperationAllowed(config, millis)
       /\ ~(last.op = "send" /\ last.drained)
       /\ (impl = "prio" =>
             millis - metrics.lastProcessTime >= MIN_QUEUE_PROCESS_INTERVAL)]_vars

\* C18: processQueuedPackets called on an empty queue with the window enabled and
\* open changes nothing: no packet is processed, handed to the radio or released,
\* the queue stays empty and every statistic keeps its value.
C18_DrainEmptyIsNoOp ==
  [][(/\ last'.op = "drain"
      /\ packets = <<>>
      /\ Enabled /\ isOperationAllowed(config, millis)) =>
       /\ last'.processed = 0
       /\ last'.attempted = {} /\ last'.failed = <<>>
       /\ packets' = <<>>
       /\ stats' = stats
       /\ metrics' = metrics
       /\ rel' = rel /\ tx' = tx
       /\ ~halted']_vars

\* processQueuedPackets ran past its guard before any packet was ever sent
C18_Witness ==
  /\ last.op = "drain" /\ last.drained /\ last.processed = 0
  /\ Enabled /\ isOperationAllowed(config, millis)
  /\ nextId = 1
  /\ packets = <<>>
  /\ stats = ZeroStats

\* the counters of st are not below those of s
CountersNotBelow(st, s) ==
  /\ st.totalQueued >= s.totalQueued
  /\ st.expiredPackets >= s.expiredPackets
  /\ st.queueOverflows >= s.queueOverflows

\* C19: totalQueued, expiredPackets and queueOverflows never decrease in a send, in
\* the enqueue, dequeue, eviction and drain inside it, in a clear of the queue or
\* in a drain called on its own; QueueStats::reset is the one operation that
\* lowers them, and it leaves all three at zero.
C19_CountersMonotonic ==
  /\ [][/\ last'.op # "reset" => CountersNotBelow(stats', stats)
        /\ last'.op = "reset" =>
             /\ stats'.totalQueued = 0
             /\ stats'.expiredPackets = 0
             /\ stats'.queueOverflows = 0]_vars
  /\ [](\A failAt \in FailAts, staleZero \in StaleZeros, rank \in Ranks,
           iterMs \in IterMsChoices :
          CountersNotBelow(
            DoProcess(Machine, Env(config, pkt, failAt, "OK", staleZero, rank, iterMs)).stats,
            stats))

\* the statistics were reset while a packet, counted before, is still queued
C19_Witness ==
  /\ last.op = "reset"
  /\ stats = ZeroStats
  /\ Len(packets) > 0

\* C20: clearPacketQueue releases every queued packet once, leaves the queue
\* empty, hands nothing to the radio, and leaves every counter of the queue
\* statistics and of the queue metrics at the value it had.
C20_ClearKeepsCounters ==
  [][last'.op = "clear" =>
       /\ packets' = <<>>
       /\ \A p \in PacketIds :
            rel'[p] = IF Queued(packets, p) THEN Bump(rel[p]) ELSE rel[p]
       /\ tx' = tx
       /\ stats' = stats
       /\ metrics' = metrics]_vars

\* C21: the queue's accessor and the plug-in's statistics reply both report the
\* summed queue time divided by the number of packets counted as queued (integer
\* division), and 0 when none was counted.
C21_AverageQueueTime ==
  /\ getAvgQueueTime(stats) =
       IF stats.totalQueued = 0 THEN 0 ELSE stats.totalQueueTime \div stats.totalQueued
  /\ last.op = "get_stats" =>
       /\ plugin.sent.type = "WINDOW_STATS"
       /\ plugin.sent.avg_queue_time =
            IF plugin.stats.totalQueued = 0 THEN 0
            ELSE plugin.stats.sumQueueTime \div plugin.stats.totalQueued

\* the words of the model's command lines that are in range: times with an hour
\* in 0..23 and a minute in 0..59, queue sizes in 1..100, expiries of at least 1
TimeWordsInRange == { <<"0", ":", "3", "0">>, <<"1", ":", "0", "0">> }

QueueWordsInRange == { <<"3">> }

ExpireWordsInRange == { <<"3">>, <<"1", "0", "1">> }

ModeNames == {"drop", "queue", "receive"}

\* a setter given an out-of-range or malformed value
BadSetterLine(argv) ==
  /\ Len(argv) >= 3
  /\ \/ /\ argv[2] = "set"
        /\ Len(argv) = 4
        /\ (argv[3] \notin TimeWordsInRange \/ argv[4] \notin TimeWordsInRange)
     \/ (argv[2] = "mode" /\ argv[3] \notin ModeNames)
     \/ (argv[2] = "queue" /\ argv[3] \notin QueueWordsInRange)
     \/ (argv[2] = "expire" /\ argv[3] \notin ExpireWordsInRange)

C23_EnabledConfigIsValid ==
  (config.has_lora /\ config.time_window_enabled) =>
    /\ config.window_start_hour \in 0..23
    /\ config.window_end_hour \in 0..23
    /\ config.window_start_minute \in 0..59
    /\ config.window_end_minute \in 0..59
    /\ config.window_mode \in ValidModes
    /\ config.window_queue_size > 0
    /\ config.window_packet_expire_secs > 0

\* an override is armed and its expiry instant is still ahead
OverrideInForce == plugin.temporaryOverride /\ millis < plugin.overrideExpiry

\* C24: while a force-open or force-close override is armed and its expiry is
\* still ahead, the current window state the plug-in reports is the forced value,
\* whatever the window clock says: open when forced open in a closed window, closed
\* when forced closed in an open window.
C24_OverrideDecidesState ==
  OverrideInForce => (getCurrentWindowState(plugin) = plugin.overrideActive)

\* C25: once the expiry instant of an override has passed, the override has no
\* effect on the current window state the plug-in reports: the state is the window
\* clock's verdict the plug-in holds, until a force command arms a new override.
C25_ExpiredOverrideIsInert ==
  millis >= plugin.overrideExpiry =>
    (getCurrentWindowState(plugin) = plugin.isWindowActive)

\* C26: the reset command clears the statistics and the override: right after it
\* every counter of the plug-in's statistics and the queue's totalQueued,
\* expiredPackets and queueOverflows are zero, and no override is armed.
C26_ResetClearsStatsAndOverride ==
  last.op = "reset_stats" =>
    /\ plugin.stats = ZeroPluginStats
    /\ stats.totalQueued = 0
    /\ stats.expiredPackets = 0
    /\ stats.queueOverflows = 0
    /\ ~plugin.temporaryOverride

PendingAt(order, k) ==
  { q \in PacketIds :
      /\ rel[q] = 0
      /\ \E i \in 1..Len(packets) :
           /\ packets[i].packet = q
           /\ ~IsExpired(packets[i], millis, packetExpirySeconds)
      /\ \A j \in 1..(k - 1) : order[j] # q }

\* C29: in the arrival-order queue a failed transmission does not reorder
\* delivery: whatever drain cycles came before, a drain in the open window hands
\* no queued packet to the radio while a packet that send() accepted earlier is
\* still pending.  Packets are numbered in the order send() was called on them.
C29_FifoFailureKeepsOrder ==
  (impl = "fifo" /\ ~Closed) =>
    \A failAt \in FailAts, staleZero \in StaleZeros :
      LET d == FifoProcess(Machine, Env(config, pkt, failAt, "OK", staleZero,
                                        IdentityRank, 0))
      IN  \A k \in 1..Len(d.order) :
            \A q \in PendingAt(d.order, k) : q >= d.order[k]

\* what processQueuedPackets leaves behind when it returns: the state it changed;
\* its locals (packetsProcessed, the result of the last call) end with the call
Returned(m) ==
  [m EXCEPT !.ret = "none", !.ok = TRUE, !.gated = FALSE, !.attempted = {},
            !.drained = FALSE, !.processed = 0, !.failed = <<>>]

RECURSIVE DrainTimes(_, _, _)
\* processQueuedPackets called n times in a row by the periodic task
DrainTimes(m, n, env) ==
  IF n = 0 THEN m ELSE DrainTimes(Returned(DoProcess(m, env)), n - 1, env)

\* the queued packets that no eviction may remove at millis(): younger than the
\* queue's own expiry and than the configured one, and not released
FreshQueued ==
  { p \in PacketIds :
      \E i \in 1..Len(packets) :
        /\ packets[i].packet = p
        /\ ~IsExpired(packets[i], millis, packetExpirySeconds)
        /\ ~IsExpired(packets[i], millis, config.window_packet_expire_secs) }

\* every queued packet is one the radio accepts: it was not released and has a
\* payload
AllTransmittable ==
  \A i \in 1..Len(packets) :
    /\ rel[packets[i].packet] = 0
    /\ pkt[packets[i].packet].payloadlen # 0

\* C27: packets queued while the window was closed are delivered once it is
\* open: with the window open and every transmission succeeding, as many drain
\* calls as there are queued packets return with the queue empty, and every
\* packet that was queued and not expired was handed to the radio exactly once.
C27_QueuedPacketsDelivered ==
  (~Closed /\ ~halted /\ packets # <<>> /\ AllTransmittable) =>
    \A rank \in Ranks, iterMs \in IterMsChoices :
      LET d == DrainTimes(Machine, Len(packets),
                          Env(config, pkt, 0, "OK", FALSE, rank, iterMs))
      IN  /\ ~d.halted
          /\ d.packets = <<>>
          /\ \A p \in FreshQueued :
               /\ d.tx[p] = 1
               /\ Cardinality({ k \in 1..Len(d.order) : d.order[k] = p }) = 1

\* the place of packet p in queue q, 1 the front
PosOf(q, p) == CHOOSE i \in 1..Len(q) : q[i].packet = p /\ \A j \in 1..(i - 1) : q[j].packet # p

InSeq(s, p) == \E i \in 1..Len(s) : s[i] = p

\* what one operation, from queue q0 with tallies tx0 and rel0 to queue q1 with
\* tallies tx1 and rel1, does for packet p queued in q0: p left the queue, handed
\* to the radio or released to the pool; or its transmission was attempted and
\* failed (failed lists the failures); or p is still queued, and strictly nearer
\* to the front when strict is set, no farther from it otherwise
Served(p, q0, tx0, rel0, q1, tx1, rel1, failed, strict) ==
  \/ /\ ~Queued(q1, p)
     /\ (tx1[p] > tx0[p] \/ rel1[p] > rel0[p] \/ rel0[p] = 2)
  \/ InSeq(failed, p)
  \/ /\ Queued(q1, p)
     /\ IF strict THEN PosOf(q1, p) < PosOf(q0, p) ELSE PosOf(q1, p) <= PosOf(q0, p)

C31_RejectedSetConfigChangesNothing ==
  [][(last'.op = "set_config" /\ last'.ret = "rejected") => config' = config]_vars

\* the plug-in object with every override state in place of its own: none, forced
\* open or forced closed, the expiry passed or still ahead
OverrideVariants ==
  { [plugin EXCEPT !.temporaryOverride = t, !.overrideActive = a, !.overrideExpiry = e] :
      t \in BOOLEAN, a \in BOOLEAN, e \in {0, millis + 3600000} }

\* C32: the admission path does not consult the override: whatever the override
\* state of the plug-in (none, forced open, forced closed, any expiry), send(p)
\* on the same packet, queue, configuration and clock returns the same value and
\* leaves the same queue, counters, releases and transmissions.
C32_SendIgnoresOverride ==
  (~halted /\ nextId <= NPackets) =>
    \A kind \in PacketKinds, outcome \in RadioOutcomes, failAt \in FailAts \cap {0, 1},
       pl \in OverrideVariants :
      LET attrs == [pkt EXCEPT ![nextId] = kind]
          e     == Env(config, attrs, failAt, outcome, FALSE, IdentityRank, 0)
      IN  DoSend(Machine, nextId, e) = DoSend(Machine, nextId, [e EXCEPT !.plugin = pl])

\* a packet was sent while the plug-in was forced open and the configured window
\* closed: it was queued all the same
C32_Witness ==
  /\ plugin.temporaryOverride
  /\ plugin.overrideActive
  /\ millis < plugin.overrideExpiry
  /\ Closed
  /\ last.op = "send"
  /\ last.gated
  /\ last.ret = "ERRNO_OK"
  /\ Queued(packets, last.p)

\* size(), empty() and full() of a queue object of either class
QSize(q) == Len(q.packets)
QEmpty(q) == q.packets = <<>>
QFull(q) == Len(q.packets) >= maxQueueSize

\* C33: the two queue classes are interchangeable in occupancy: given the same
\* calls of enqueue, dequeue and clear, both report the same size, empty and full,
\* returned the same value from the last enqueue, returned a packet or nullptr
\* alike from the last dequeue, and count the same totalQueued and queueOverflows.
C33_SameOccupancy ==
  /\ QSize(twin.fifo) = QSize(twin.prio)
  /\ QEmpty(twin.fifo) = QEmpty(twin.prio)
  /\ QFull(twin.fifo) = QFull(twin.prio)
  /\ twin.fifo.ok = twin.prio.ok
  /\ (twin.fifo.cur.packet = NoPacket) = (twin.prio.cur.packet = NoPacket)
  /\ twin.fifo.stats.totalQueued = twin.prio.stats.totalQueued
  /\ twin.fifo.stats.queueOverflows = twin.prio.stats.queueOverflows

\* after an overflow and a dequeue that returned different packets, the two
\* objects hold one entry each, of different packets
C33_Witness ==
  /\ last.op = "dequeue"
  /\ twin.fifo.stats.queueOverflows > 0
  /\ QSize(twin.fifo) = 1
  /\ twin.fifo.cur.packet # twin.prio.cur.packet
  /\ twin.fifo.packets[1].packet # twin.prio.packets[1].packet

\* C34: the score of an entry of the priority queue is 1, plus 2 if the packet
\* wants an acknowledgement, plus 3 if its declared priority is RELIABLE or else 2
\* if it is ACK, plus 1 if its port is the position port, plus 4 if its port is
\* the emergency port (a packet that is not decoded has no port): so for every
\* combination of these fields, the score lies in 1..10, every queued entry
\* carries the score of its packet, and an entry keeps its score while queued.
C34_PriorityScore ==
  /\ [](LET Port(a)  == IF a.decoded THEN a.portnum ELSE "NONE"
            Score(a) == 1 + (IF a.want_ack THEN 2 ELSE 0)
                          + (CASE a.priority = "RELIABLE" -> 3
                               [] a.priority = "ACK" -> 2
                               [] OTHER -> 0)
                          + (IF Port(a) = "POSITION" THEN 1 ELSE 0)
                          + (IF Port(a) = "EMERGENCY" THEN 4 ELSE 0)
        IN  /\ \A a \in AttrKinds :
                 /\ calculatePriority(a) = Score(a)
                 /\ calculatePriority(a) \in 1..10
            /\ impl = "prio" =>
                 \A i \in 1..Len(packets) :
                   rel[packets[i].packet] = 0 =>
                     /\ packets[i].priority = Score(pkt[packets[i].packet])
                     /\ packets[i].priority \in 1..10)
  /\ [][impl = "prio" =>
          \A i \in 1..Len(packets), j \in 1..Len(packets') :
            (/\ packets[i].packet = packets'[j].packet
             /\ packets[i].enqueue_time = packets'[j].enqueue_time)
              => packets[i].priority = packets'[j].priority]_vars

\* the priority queue holds an emergency report of score 10 behind a text
\* message of score 1, and time has passed since they were queued
C34_Witness ==
  /\ impl = "prio"
  /\ Len(packets) = 2
  /\ packets[1].priority = 1
  /\ packets[2].priority = 10
  /\ millis > packets[2].enqueue_time

\* C35: the re-enqueue that follows a failed transmission inside a drain never
\* fails for lack of room: the queue never holds more than maxQueueSize entries,
\* so after the dequeue there is room for one; the enqueue returns true, the
\* failed packet is back in the queue, and neither queueOverflows nor dropCount
\* moves, in a drain called on its own or from send().
C35_RequeueNeverOverflows ==
  /\ [](impl \in {"fifo", "prio"} =>
          /\ Len(packets) <= maxQueueSize
          /\ \A failAt \in FailAts, staleZero \in StaleZeros, rank \in Ranks,
                iterMs \in IterMsChoices :
               LET d == DoProcess(Machine, Env(config, pkt, failAt, "OK", staleZero,
                                               rank, iterMs))
               IN  d.failed # <<>> =>
                     /\ d.ok
                     /\ Len(d.packets) <= maxQueueSize
                     /\ Queued(d.packets, d.failed[1])
                     /\ d.stats.queueOverflows = stats.queueOverflows
                     /\ d.metrics.dropCount = metrics.dropCount)
  /\ [][(impl \in {"fifo", "prio"} /\ last'.failed # <<>>) =>
          /\ Queued(packets', last'.failed[1])
          /\ stats'.queueOverflows = stats.queueOverflows
          /\ metrics'.dropCount = metrics.dropCount]_vars

\* a drain of a full queue failed on a packet and put it back: the queue is full
\* again and no overflow was counted
C35_Witness ==
  /\ impl \in {"fifo", "prio"}
  /\ last.op = "drain"
  /\ last.failed # <<>>
  /\ Len(packets) = maxQueueSize
  /\ stats.queueOverflows = 0
  /\ metrics.dropCount = 0

\* C36: as long as the statistics are not reset, totalQueued of a queue object
\* of either class is the number of entries it holds, plus the dequeue calls
\* that returned a packet, plus expiredPackets, plus the entries clear removed;
\* hence size plus expiredPackets never exceeds totalQueued.
C36_CountersAccountForEntries ==
  \A q \in {twin.fifo, twin.prio} :
    /\ q.stats.totalQueued = QSize(q) + q.taken + q.stats.expiredPackets + q.cleared
    /\ QSize(q) + q.stats.expiredPackets <= q.stats.totalQueued

\* every term of the account is at work: an entry queued, one dequeued, one
\* expired and one cleared
C36_Witness ==
  /\ QSize(twin.prio) > 0
  /\ twin.prio.taken > 0
  /\ twin.prio.stats.expiredPackets > 0
  /\ twin.prio.cleared > 0

\* C37: while the window stays closed nothing but the clear-queue command takes
\* an entry out of the queue, however old the entry: across every step that
\* begins and ends with the window closed and is not a clear, every queued entry
\* is still queued; and a send() that finds the queue full leaves it as it is and
\* does not return success.
C37_ClosedWindowKeepsQueue ==
  [][(Closed /\ Closed' /\ last'.op \notin {"clear", "clear_queue"}) =>
       /\ \A i \in 1..Len(packets) : \E j \in 1..Len(packets') : packets'[j] = packets[i]
       /\ Len(packets') >= Len(packets)
       /\ (last'.op = "send" /\ config.window_mode = QUEUE_PACKETS
           /\ Len(packets) >= (IF impl = "inline" THEN config.window_queue_size
                                                  ELSE maxQueueSize)) =>
            /\ packets' = packets
            /\ last'.ret # "ERRNO_OK"]_vars

\* the entries of q of a score above that of every other entry, of a packet the
\* radio is given (not released, with a payload) and not evicted by an eviction
\* at millis(): at most one
StrictlyHighest(q) ==
  { i \in 1..Len(q) :
      /\ rel[q[i].packet] = 0
      /\ pkt[q[i].packet].payloadlen # 0
      /\ ~IsExpired(q[i], millis, packetExpirySeconds)
      /\ \A j \in 1..Len(q) : j # i => q[j].priority < q[i].priority }

\* C38: in the priority queue, a drain in which the transmission of the entry of
\* strictly highest score fails hands no other queued packet to the radio: it
\* dequeues that entry, attempts it alone, puts it back and stops, every other
\* entry that did not expire staying queued as it was; and the entry put back is
\* again the one of strictly highest score, so the next drain does the same for
\* as long as its transmission fails.
C38_FailingTopBlocksQueue ==
  (impl = "prio" /\ Enabled) =>
    \A i \in StrictlyHighest(packets) :
      \A staleZero \in StaleZeros, rank \in Ranks, iterMs \in IterMsChoices :
        LET h == packets[i].packet
            d == PrioProcess(Machine, Env(config, pkt, 1, "OK", staleZero, rank, iterMs))
        IN  /\ d.failed = <<h>>
            /\ d.attempted \subseteq {h}
            /\ d.processed = 0
            /\ d.tx = tx
            /\ \A j \in 1..Len(packets) :
                 (j # i /\ ~IsExpired(packets[j], millis, packetExpirySeconds)) =>
                   \E k \in 1..Len(d.packets) : d.packets[k] = packets[j]
            /\ \E k \in StrictlyHighest(d.packets) :
                 /\ d.packets[k].packet = h
                 /\ d.packets[k].priority = packets[i].priority

\* a drain of the priority queue failed on the emergency report, of score 10, and
\* put it back; the text message of score 1 queued before it was not sent
C38_Witness ==
  /\ impl = "prio"
  /\ last.op = "drain"
  /\ last.failed = <<2>>
  /\ last.attempted = {2}
  /\ Len(packets) = 2
  /\ packets[1].packet = 1 /\ packets[1].priority = 1
  /\ packets[2].packet = 2 /\ packets[2].priority = 10
  /\ tx[1] = 0

\* C39: with the window open or the time window disabled, send(p) on a packet
\* with a payload and a working radio returns, and it hands p to the radio
\* exactly once, after every packet the drain it ran handed over, whatever that
\* drain did (stopped at a failure or at its budget, or was skipped): p is not
\* queued or released, and it counts as transmitted when the radio accepts it.
C39_OpenSendTransmitsOnce ==
  (~Closed /\ ~halted /\ ~disabled /\ nextId <= NPackets) =>
    \A kind \in { k \in PacketKinds : k.payloadlen # 0 }, outcome \in {"OK", "FAIL"},
       failAt \in FailAts, staleZero \in StaleZeros, rank \in Ranks,
       iterMs \in IterMsChoices :
      LET attrs == [pkt EXCEPT ![nextId] = kind]
          d     == DoSend(Machine, nextId,
                          Env(config, attrs, failAt, outcome, staleZero, rank, iterMs))
      IN  /\ ~d.halted
          /\ ~d.gated
          /\ d.order # <<>>
          /\ d.order[Len(d.order)] = nextId
          /\ Cardinality({ k \in 1..Len(d.order) : d.order[k] = nextId }) = 1
          /\ ~Queued(d.packets, nextId)
          /\ d.rel[nextId] = 0
          /\ d.tx[nextId] = (IF outcome = "OK" THEN 1 ELSE 0)
          /\ d.ret = (IF outcome = "OK" THEN "ERRNO_OK" ELSE "ERRNO_UNKNOWN")

\* C40: a send() called with the window closed and a configured mode that is none
\* of DropPackets, QueuePackets and ReceiveOnly returns the invalid-configuration
\* error and does nothing else: the queue, the statistics and the metrics are as
\* they were, the packet is neither handed to the radio nor released, and no
\* drain ran.
C40_InvalidModeSendDoesNothing ==
  [][(last'.op = "send" /\ Closed /\ config.window_mode \notin ValidModes) =>
       /\ last'.ret = "ERRNO_INVALID_CONFIG"
       /\ last'.gated
       /\ ~last'.drained
       /\ last'.attempted = {}
       /\ packets' = packets
       /\ stats' = stats
       /\ metrics' = metrics
       /\ tx' = tx
       /\ rel' = rel
       /\ ~halted']_vars

\* a packet was sent in the closed window under a mode outside the enumeration,
\* while another packet was queued: the queue still holds that one alone
C40_Witness ==
  /\ last.op = "send"
  /\ last.ret = "ERRNO_INVALID_CONFIG"
  /\ Closed
  /\ config.window_mode \notin ValidModes
  /\ Len(packets) = 1
  /\ ~Queued(packets, last.p)
  /\ rel[last.p] = 0
  /\ tx[last.p] = 0

====
